---- MODULE Spec2Model ----
(***************************************************************************)
(* A model of pimdb/database.py: the value coercer, the bulk writer, the   *)
(* staging loader, key-table materialization and the report builder.       *)
(* Strings are TLA+ strings (Len, SubSeq and \o act on them character by   *)
(* character); database tables are sequences of rows in insertion order.   *)
(***************************************************************************)
EXTENDS Integers, Sequences, FiniteSets, TLC

VARIABLES
    (* BulkInsert used on its own *)
    bulk_insert,      \* the BulkInsert object: bulk_size, data, count, state
    bulk_table,       \* the rows of the table the BulkInsert writes to
    bulk_added,       \* history: the rows handed to add(), in call order
    (* typed_column_to_value_map used on its own *)
    tc_columns,       \* the columns of the table handed to the function
    tc_raw,           \* the raw row: column name -> raw string
    tc_out,           \* the outcome of the call, "none" before it
    (* build_dataset_table *)
    ld_bulk_size,     \* Database._bulk_size
    ld_staging,       \* committed rows of each staging table
    ld_pc,            \* "idle", "loop", "done" or "failed"
    ld_dataset,       \* the dataset being loaded
    ld_txn,           \* rows of the staging table as seen inside the transaction
    ld_bulk,          \* the BulkInsert of the call
    ld_seen,          \* GzippedTsvReader: key tuples already emitted
    ld_row_number,    \* GzippedTsvReader.row_number
    ld_error,         \* the error that reached the caller, "none" if none
    ld_warnings,      \* log.warning records of the current call
    ld_before,        \* history: committed rows when the call started
    ld_emitted,       \* history: raw rows handed to the coercer, in order
    ld_first,         \* history: first raw row read for each primary key
    ld_loads,         \* number of calls started
    (* key-table materialization *)
    key_bulk_size,    \* Database._bulk_size
    key_table,        \* rows of the key table being built
    key_call,         \* history: the last call and its arguments
    key_out,          \* how the last call ended, "none" before the first
    key_builds,       \* number of calls made
    (* report builder *)
    rp_bulk_size,                  \* Database._bulk_size
    rp_staging,                    \* rows of the staging tables, by dataset
    rp_tables,                     \* rows of the report tables, by name
    rp_nconst_to_name_id_map,      \* Database._nconst_to_name_id_map
    rp_lru_cache,                  \* results kept by mappable_title_alias_types
    rp_unknown_title_alias_types,  \* Database._unknown_title_alias_types
    rp_character_names,            \* character names by id, between the two
                                   \* transactions of the characters build
    rp_done,                       \* position in the build order
    rp_error,                      \* the error that ended the build, if any
    rp_log,                        \* warnings logged by the last build
    rp_runs,                       \* number of builds started
    rp_cached_at                   \* history: the build that read the nconst map

bulkVars == <<bulk_insert, bulk_table, bulk_added>>
tcVars == <<tc_columns, tc_raw, tc_out>>
ldVars == <<ld_bulk_size, ld_staging, ld_pc, ld_dataset, ld_txn, ld_bulk, ld_seen,
            ld_row_number, ld_error, ld_warnings, ld_before, ld_emitted, ld_first,
            ld_loads>>
keyVars == <<key_bulk_size, key_table, key_call, key_out, key_builds>>
rpInstance ==
    <<rp_nconst_to_name_id_map, rp_lru_cache, rp_unknown_title_alias_types,
      rp_cached_at>>
rpVars ==
    <<rp_bulk_size, rp_staging, rp_tables, rpInstance, rp_character_names, rp_done,
      rp_error, rp_log, rp_runs>>

\* What an action of one component leaves alone.
notBulk == <<tcVars, ldVars, keyVars, rpVars>>
notTc == <<bulkVars, ldVars, keyVars, rpVars>>
notLd == <<bulkVars, tcVars, keyVars, rpVars>>
notKey == <<bulkVars, tcVars, ldVars, rpVars>>
notRp == <<bulkVars, tcVars, ldVars, keyVars>>

-----------------------------------------------------------------------------
(* Bounds of the model *)

MaxBulk == 2        \* bulk_size ranges over 1..MaxBulk
MaxAdds == 4        \* add() calls on a BulkInsert used on its own
MaxRows == 3        \* data rows read from one TSV file
MaxLoads == 2       \* build_dataset_table calls in one behaviour
MaxQueryRows == 2   \* rows a key-table query returns
MaxBuilds == 2      \* key-table builds in one behaviour
MaxRuns == 2        \* builds of the report tables in one behaviour

-----------------------------------------------------------------------------
(* Strings *)

\* The characters the model's strings use, in ascending code point order.
Alphabet ==
    " \",-.0123456789ABCDEFGHIJKLMNOPQRSTUVWXYZ[\\]_abcdefghijklmnopqrstuvwxyz"

CharAt(s, i) == SubSeq(s, i, i)

\* The position of each character of Alphabet, its rank by code point.
OrdOf ==
    [c \in {CharAt(Alphabet, i) : i \in 1..Len(Alphabet)} |->
        CHOOSE i \in 1..Len(Alphabet) : CharAt(Alphabet, i) = c]

Ord(c) == OrdOf[c]

\* Python's str < str: by code point, a proper prefix is smaller.
RECURSIVE StrLessFrom(_, _, _)
StrLessFrom(a, b, i) ==
    IF i > Len(b) THEN FALSE
    ELSE IF i > Len(a) THEN TRUE
    ELSE IF CharAt(a, i) = CharAt(b, i) THEN StrLessFrom(a, b, i + 1)
    ELSE Ord(CharAt(a, i)) < Ord(CharAt(b, i))

StrLess(a, b) == StrLessFrom(a, b, 1)

\* str.find(sub): the first index (1-based) at which sub occurs in s, 0 if none.
RECURSIVE FindFrom(_, _, _)
FindFrom(s, sub, i) ==
    IF i + Len(sub) - 1 > Len(s) THEN 0
    ELSE IF SubSeq(s, i, i + Len(sub) - 1) = sub THEN i
    ELSE FindFrom(s, sub, i + 1)

Find(s, sub) == FindFrom(s, sub, 1)

\* str.split(delimiter) for a non-empty delimiter: "a,".split(",") = ["a", ""].
RECURSIVE split(_, _)
split(s, delimiter) ==
    LET i == Find(s, delimiter)
    IN  IF i = 0 THEN <<s>>
        ELSE <<SubSeq(s, 1, i - 1)>>
                 \o split(SubSeq(s, i + Len(delimiter), Len(s)), delimiter)

\* sorted(values) on a sequence of strings (stable insertion sort).
RECURSIVE InsertSorted(_, _)
InsertSorted(sorted_values, v) ==
    IF sorted_values = <<>> THEN <<v>>
    ELSE IF StrLess(v, Head(sorted_values)) THEN <<v>> \o sorted_values
    ELSE <<Head(sorted_values)>> \o InsertSorted(Tail(sorted_values), v)

RECURSIVE sorted(_)
sorted(values) ==
    IF values = <<>> THEN <<>>
    ELSE InsertSorted(sorted(SubSeq(values, 1, Len(values) - 1)), values[Len(values)])

Range(f) == {f[x] : x \in DOMAIN f}

-----------------------------------------------------------------------------
(* Python values *)

PyNone == [t |-> "NoneType"]
PyBool(b) == [t |-> "bool", v |-> b]
PyInt(n) == [t |-> "int", v |-> n]
\* A float m / 10^e, with no trailing zero in the fraction.
PyFloat(m, e) == [t |-> "float", m |-> m, e |-> e]
PyStr(s) == [t |-> "str", v |-> s]

RECURSIVE Pow10(_)
Pow10(e) == IF e = 0 THEN 1 ELSE 10 * Pow10(e - 1)

RECURSIVE NormalFloat(_, _)
NormalFloat(m, e) ==
    IF e > 0 /\ m % 10 = 0 THEN NormalFloat(m \div 10, e - 1) ELSE PyFloat(m, e)

\* Python's == on the values above: bool, int and float compare by number.
IsNumber(x) == x.t \in {"bool", "int", "float"}
AsFloat(x) ==
    CASE x.t = "bool" -> PyFloat(IF x.v THEN 1 ELSE 0, 0)
      [] x.t = "int" -> PyFloat(x.v, 0)
      [] x.t = "float" -> x
PyEq(x, y) == IF IsNumber(x) /\ IsNumber(y) THEN AsFloat(x) = AsFloat(y) ELSE x = y

Digits == "0123456789"
IsDigit(c) == Find(Digits, c) # 0
DigitValue(c) == Find(Digits, c) - 1

RECURSIVE IsDigits(_)
IsDigits(s) == s = "" \/ (IsDigit(CharAt(s, 1)) /\ IsDigits(SubSeq(s, 2, Len(s))))

RECURSIVE DigitsValue(_)
DigitsValue(s) ==
    IF s = "" THEN 0
    ELSE 10 * DigitsValue(SubSeq(s, 1, Len(s) - 1)) + DigitValue(CharAt(s, Len(s)))

\* int(raw_value) and float(raw_value) on strings over the model's alphabet:
\* an optional sign and decimal digits, for float with an optional fraction.
Unsigned(s) == IF s # "" /\ CharAt(s, 1) = "-" THEN SubSeq(s, 2, Len(s)) ELSE s
Sign(s) == IF s # "" /\ CharAt(s, 1) = "-" THEN -1 ELSE 1

python_int(raw_value) ==
    LET u == Unsigned(raw_value)
    IN  IF u # "" /\ IsDigits(u)
        THEN [kind |-> "ok", value |-> PyInt(Sign(raw_value) * DigitsValue(u))]
        ELSE [kind |-> "ValueError", raw |-> raw_value]

python_float(raw_value) ==
    LET u == Unsigned(raw_value)
        dot == Find(u, ".")
        whole == IF dot = 0 THEN u ELSE SubSeq(u, 1, dot - 1)
        fraction == IF dot = 0 THEN "" ELSE SubSeq(u, dot + 1, Len(u))
    IN  IF IsDigits(whole) /\ IsDigits(fraction) /\ whole \o fraction # ""
        THEN [kind |-> "ok",
              value |-> NormalFloat(Sign(raw_value) * DigitsValue(whole \o fraction),
                                    Len(fraction))]
        ELSE [kind |-> "ValueError", raw |-> raw_value]

\* column.type.python_type(raw_value) of line 295.
python_type_call(python_type, raw_value) ==
    CASE python_type = "int" -> python_int(raw_value)
      [] python_type = "float" -> python_float(raw_value)
      [] python_type = "str" -> [kind |-> "ok", value |-> PyStr(raw_value)]

-----------------------------------------------------------------------------
(* typed_column_to_value_map *)

Column(name, python_type, nullable, primary_key) ==
    [name |-> name, python_type |-> python_type, nullable |-> nullable,
     primary_key |-> primary_key]

NULL_SENTINEL == "\\N"

\* As non_null_default, but the None of line 270 is kept.
non_null_default_kept_none(python_type) == PyNone

\* The value a non-nullable column gets for the null sentinel (lines 272-277).
non_null_default(python_type) ==
    CASE python_type = "bool" -> PyBool(FALSE)
      [] python_type \in {"float", "int"} -> PyInt(0)
      [] python_type = "str" -> PyStr("")

\* As boolean_value, but a value other than "1" counts as false.
boolean_value_lenient(column, raw_value) ==
    [kind |-> "ok", value |-> PyBool(raw_value = "1"), warnings |-> <<>>]

\* The boolean branch (lines 287-293).
boolean_value(column, raw_value) ==
    IF raw_value = "1" THEN [kind |-> "ok", value |-> PyBool(TRUE), warnings |-> <<>>]
    ELSE IF raw_value = "0" THEN [kind |-> "ok", value |-> PyBool(FALSE), warnings |-> <<>>]
    ELSE [kind |-> "PimdbError", column |-> column.name, raw |-> raw_value]

\* One pass of the loop body (lines 267-295) for one column: the value with the
\* warnings logged, or the exception raised.
column_value(column, raw_map) ==
    LET raw_value == raw_map[column.name]
    IN  IF raw_value = NULL_SENTINEL
        THEN IF column.nullable
             THEN [kind |-> "ok", value |-> PyNone, warnings |-> <<>>]
             ELSE [kind |-> "ok", value |-> non_null_default(column.python_type),
                   warnings |-> <<[column |-> column.name,
                                   python_type |-> column.python_type,
                                   value |-> non_null_default(column.python_type),
                                   raw_value_map |-> raw_map]>>]
        ELSE IF column.python_type = "bool"
        THEN boolean_value(column, raw_value)
        ELSE LET parsed == python_type_call(column.python_type, raw_value)
             IN  IF parsed.kind = "ok"
                 THEN [kind |-> "ok", value |-> parsed.value, warnings |-> <<>>]
                 ELSE parsed

\* The loop over table.columns: the result map so far, the warnings so far, and the
\* exception that ended the loop, if any.
RECURSIVE typed_columns_from(_, _, _, _, _)
typed_columns_from(columns, raw_map, i, result, warnings) ==
    IF i > Len(columns)
    THEN [kind |-> "ok", result |-> result, warnings |-> warnings]
    ELSE LET one == column_value(columns[i], raw_map)
         IN  IF one.kind = "ok"
             THEN typed_columns_from(columns, raw_map, i + 1,
                                     result @@ (columns[i].name :> one.value),
                                     warnings \o one.warnings)
             ELSE [kind |-> one.kind, error |-> one, at |-> i, warnings |-> warnings]

typed_column_to_value_map(columns, raw_map) ==
    typed_columns_from(columns, raw_map, 1, <<>>, <<>>)

-----------------------------------------------------------------------------
(* BulkInsert *)

\* The report tables whose id column is an integer primary key the database
\* fills in when a row is inserted without one (lines 139, 195, 208, 224, 241).
TablesWithId ==
    {"character", "genre", "profession", "title_type", "title_alias_type", "name",
     "title", "title_alias", "participation"}

\* The id the database gives the next row: one more than the largest id of the
\* table, 1 for an empty table (the rowid of the default engine, line 355).
next_id(table_rows) ==
    IF table_rows = <<>> THEN 1
    ELSE 1 + CHOOSE m \in {r.id : r \in Range(table_rows)} :
                 \A r \in Range(table_rows) : r.id <= m

RECURSIVE insert_rows(_, _, _)
insert_rows(table_name, table_rows, rows) ==
    IF rows = <<>> THEN table_rows
    ELSE LET row == Head(rows)
             stored == IF table_name \in TablesWithId /\ "id" \notin DOMAIN row
                       THEN row @@ [id |-> next_id(table_rows)]
                       ELSE row
         IN  insert_rows(table_name, Append(table_rows, stored), Tail(rows))

\* connection.execute(table.insert(rows)): the rows are appended in order.
execute_insert(table_name, table_rows, rows) ==
    insert_rows(table_name, table_rows, rows)

BulkInsert_init(table_name, bulk_size) ==
    [table |-> table_name, bulk_size |-> bulk_size, data |-> <<>>, count |-> 0,
     state |-> "open"]

\* _flush: one multi-row insert of the buffer, which is then cleared.
BulkInsert_flush(b, table_rows) ==
    [bulk |-> [b EXCEPT !.data = <<>>], table |-> execute_insert(b.table, table_rows, b.data)]

\* An add that flushes only once the buffer holds more than bulk_size rows.
BulkInsert_add_late(b, table_rows, row) ==
    LET appended == [b EXCEPT !.data = Append(b.data, row), !.count = b.count + 1]
    IN  IF Len(appended.data) > appended.bulk_size
        THEN BulkInsert_flush(appended, table_rows)
        ELSE [bulk |-> appended, table |-> table_rows]

\* add: append, count, flush when the buffer has reached bulk_size.
BulkInsert_add(b, table_rows, row) ==
    LET appended == [b EXCEPT !.data = Append(b.data, row), !.count = b.count + 1]
    IN  IF Len(appended.data) >= appended.bulk_size
        THEN BulkInsert_flush(appended, table_rows)
        ELSE [bulk |-> appended, table |-> table_rows]

\* As BulkInsert_close, but the buffered rows are dropped instead of flushed.
BulkInsert_close_without_flush(b, table_rows) ==
    [bulk |-> [b EXCEPT !.data = <<>>, !.state = "closed"], table |-> table_rows]

\* close: flush what is buffered, then drop the buffer (self._data = None).
BulkInsert_close(b, table_rows) ==
    LET flushed == IF Len(b.data) >= 1 THEN BulkInsert_flush(b, table_rows)
                   ELSE [bulk |-> b, table |-> table_rows]
    IN  [bulk |-> [flushed.bulk EXCEPT !.state = "closed"], table |-> flushed.table]

\* __exit__: close unless an error is propagating.
BulkInsert_exit(b, table_rows, has_error) ==
    IF has_error THEN [bulk |-> [b EXCEPT !.state = "exited"], table |-> table_rows]
    ELSE BulkInsert_close(b, table_rows)

-----------------------------------------------------------------------------
(* Values the variables of a component hold while another one is checked *)

BulkIdle ==
    /\ bulk_insert = [state |-> "unused"]
    /\ bulk_table = <<>>
    /\ bulk_added = <<>>

TcIdle ==
    /\ tc_columns = <<>>
    /\ tc_raw = <<>>
    /\ tc_out = [kind |-> "none"]

LdIdle ==
    /\ ld_bulk_size = 0
    /\ ld_staging = <<>>
    /\ ld_pc = "unused"
    /\ ld_dataset = "none"
    /\ ld_txn = <<>>
    /\ ld_bulk = [state |-> "unused"]
    /\ ld_seen = {}
    /\ ld_row_number = 0
    /\ ld_error = [kind |-> "none"]
    /\ ld_warnings = <<>>
    /\ ld_before = <<>>
    /\ ld_emitted = <<>>
    /\ ld_first = <<>>
    /\ ld_loads = 0

KeyIdle ==
    /\ key_bulk_size = 0
    /\ key_table = <<>>
    /\ key_call = [op |-> "none"]
    /\ key_out = [kind |-> "none"]
    /\ key_builds = 0

-----------------------------------------------------------------------------
(* BulkInsert used on its own: the calls a caller can make *)

\* Rows of an ordered relation; the caller numbers them as it adds them.
BulkRows(n) == {[title_id |-> 1, ordering |-> n, genre_id |-> g] : g \in 1..2}

BulkInit ==
    /\ \E bulk_size \in 1..MaxBulk : bulk_insert = BulkInsert_init("title_to_genre", bulk_size)
    /\ bulk_table = <<>>
    /\ bulk_added = <<>>

Add ==
    /\ bulk_insert.state = "open"
    /\ bulk_insert.count < MaxAdds
    /\ \E row \in BulkRows(bulk_insert.count + 1) :
          LET after == BulkInsert_add(bulk_insert, bulk_table, row)
          IN  /\ bulk_insert' = after.bulk
              /\ bulk_table' = after.table
              /\ bulk_added' = Append(bulk_added, row)
    /\ UNCHANGED notBulk

Close ==
    /\ bulk_insert.state = "open"
    /\ LET after == BulkInsert_close(bulk_insert, bulk_table)
       IN  /\ bulk_insert' = after.bulk
           /\ bulk_table' = after.table
    /\ UNCHANGED bulk_added
    /\ UNCHANGED notBulk

\* The with block ends: normally, or with an error propagating through it.
Exit ==
    /\ bulk_insert.state = "open"
    /\ \E has_error \in BOOLEAN :
          LET after == BulkInsert_exit(bulk_insert, bulk_table, has_error)
          IN  /\ bulk_insert' = after.bulk
              /\ bulk_table' = after.table
    /\ UNCHANGED bulk_added
    /\ UNCHANGED notBulk

-----------------------------------------------------------------------------
(* typed_column_to_value_map used on its own *)

PythonTypes == {"bool", "int", "float", "str"}

RawValues == {NULL_SENTINEL, "0", "1", "7", "-3", "7.5", "2.0", "x", ""}

TcColumns(name) == {Column(name, t, n, FALSE) : t \in PythonTypes, n \in BOOLEAN}

TcInit ==
    /\ \E c1 \in TcColumns("c1"), c2 \in TcColumns("c2") : tc_columns = <<c1, c2>>
    /\ tc_raw \in [{"c1", "c2"} -> RawValues]
    /\ tc_out = [kind |-> "none"]

Coerce ==
    /\ tc_out.kind = "none"
    /\ tc_out' = typed_column_to_value_map(tc_columns, tc_raw)
    /\ UNCHANGED <<tc_columns, tc_raw>>
    /\ UNCHANGED notTc

-----------------------------------------------------------------------------
(* The staging tables (imdb_dataset_table_infos), with the key columns and one *)
(* column of each coerced type and nullability the loader treats differently.  *)

imdb_dataset_table_infos ==
    [title_basics |->
        <<Column("tconst", "str", FALSE, TRUE),
          Column("isAdult", "bool", FALSE, FALSE),
          Column("startYear", "int", TRUE, FALSE)>>,
     title_akas |->
        <<Column("titleId", "str", FALSE, TRUE),
          Column("ordering", "int", FALSE, TRUE),
          Column("isOriginalTitle", "bool", TRUE, FALSE)>>,
     title_principals |->
        <<Column("tconst", "str", FALSE, TRUE),
          Column("ordering", "int", FALSE, TRUE),
          Column("characters", "str", TRUE, FALSE)>>,
     title_ratings |->
        <<Column("tconst", "str", FALSE, TRUE),
          Column("averageRating", "float", FALSE, FALSE)>>]

Datasets == DOMAIN imdb_dataset_table_infos

\* ImdbDataset.filename joined to the dataset folder.
gzipped_tsv_path(imdb_dataset) ==
    CASE imdb_dataset = "title_basics" -> "title.basics.tsv.gz"
      [] imdb_dataset = "title_akas" -> "title.akas.tsv.gz"
      [] imdb_dataset = "title_principals" -> "title.principals.tsv.gz"
      [] imdb_dataset = "title_ratings" -> "title.ratings.tsv.gz"

\* The rows a TSV file of the dataset can hold.
RawRows(imdb_dataset) ==
    CASE imdb_dataset = "title_basics" ->
            [tconst : {"tt1"}, isAdult : {"1", NULL_SENTINEL, "x"},
             startYear : {NULL_SENTINEL, "x"}]
      [] imdb_dataset = "title_akas" ->
            [titleId : {"tt1"}, ordering : {"1", "2"}, isOriginalTitle : {"0", "x"}]
      [] imdb_dataset = "title_principals" ->
            [tconst : {"tt1"}, ordering : {"1"},
             characters : {"[\"Bob\"]", "not-json"}]
      [] imdb_dataset = "title_ratings" ->
            [tconst : {"tt1", "tt2", "tt3"}, averageRating : {"7.5", "x"}]

RECURSIVE SelectSeq2(_, _)
\* The names of the columns of a sequence of columns that satisfy primary_key.
SelectSeq2(columns, i) ==
    IF i > Len(columns) THEN <<>>
    ELSE (IF columns[i].primary_key THEN <<columns[i].name>> ELSE <<>>)
             \o SelectSeq2(columns, i + 1)

\* As key_columns, but only the first primary-key column is taken.
key_columns_first_only(imdb_dataset) ==
    SubSeq(SelectSeq2(imdb_dataset_table_infos[imdb_dataset], 1), 1, 1)

\* Database.key_columns: the names of the primary-key columns, in column order.
key_columns(imdb_dataset) == SelectSeq2(imdb_dataset_table_infos[imdb_dataset], 1)

\* GzippedTsvReader: the tuple of a row's key column values.
key_tuple(key_column_names, raw_map) ==
    [i \in 1..Len(key_column_names) |-> raw_map[key_column_names[i]]]

\* GzippedTsvReader: a row is skipped when key_columns is non-empty and its key
\* tuple equals that of a row already emitted.
is_duplicate(key_column_names, seen, raw_map) ==
    key_column_names # <<>> /\ key_tuple(key_column_names, raw_map) \in seen

\* As transaction_end, but every statement is committed as it is executed.
transaction_end_autocommit(has_error, rows_before, rows_inside) == rows_inside

\* with connection.begin(): the block's changes are committed when it ends
\* normally and rolled back when an error leaves it.
transaction_end(has_error, rows_before, rows_inside) ==
    IF has_error THEN rows_before ELSE rows_inside

\* The except clause of lines 456-459: a PimdbError is raised again with the path
\* and the row number; any other exception passes through as it is.
row_error(imdb_dataset, row_number, error) ==
    IF error.kind = "PimdbError"
    THEN [kind |-> "PimdbError", path |-> gzipped_tsv_path(imdb_dataset),
          row_number |-> row_number, cause |-> error]
    ELSE error

LdInit ==
    /\ ld_bulk_size \in 1..MaxBulk
    /\ ld_staging = [d \in Datasets |-> <<>>]
    /\ ld_pc = "idle"
    /\ ld_dataset = "none"
    /\ ld_txn = <<>>
    /\ ld_bulk = [state |-> "unused"]
    /\ ld_seen = {}
    /\ ld_row_number = 0
    /\ ld_error = [kind |-> "none"]
    /\ ld_warnings = <<>>
    /\ ld_before = <<>>
    /\ ld_emitted = <<>>
    /\ ld_first = <<>>
    /\ ld_loads = 0

\* build_dataset_table up to the loop: the transaction begins, the table is
\* cleared, the reader and the BulkInsert are created.
BeginLoad ==
    /\ ld_pc \in {"idle", "done", "failed"}
    /\ ld_loads < MaxLoads
    /\ ld_pc' = "loop"
    /\ ld_txn' = <<>>
    /\ \E imdb_dataset \in Datasets :
          /\ ld_dataset' = imdb_dataset
          /\ ld_before' = ld_staging[imdb_dataset]
          /\ ld_bulk' = BulkInsert_init(imdb_dataset, ld_bulk_size)
    /\ ld_seen' = {}
    /\ ld_row_number' = 0
    /\ ld_error' = [kind |-> "none"]
    /\ ld_warnings' = <<>>
    /\ ld_emitted' = <<>>
    /\ ld_first' = <<>>
    /\ ld_loads' = ld_loads + 1
    /\ UNCHANGED <<ld_bulk_size, ld_staging>>
    /\ UNCHANGED notLd

\* The primary key of a raw row as the table declares it, for the history.
PrimaryKeyColumns(imdb_dataset) ==
    CASE imdb_dataset = "title_basics" -> <<"tconst">>
      [] imdb_dataset = "title_akas" -> <<"titleId", "ordering">>
      [] imdb_dataset = "title_principals" -> <<"tconst", "ordering">>
      [] imdb_dataset = "title_ratings" -> <<"tconst">>

PrimaryKey(imdb_dataset, raw_map) ==
    [i \in 1..Len(PrimaryKeyColumns(imdb_dataset)) |->
        raw_map[PrimaryKeyColumns(imdb_dataset)[i]]]

\* One pass of the loop: the reader reads the next data row, skips it as a
\* duplicate or hands it to the coercer and the BulkInsert; an exception leaves
\* both with blocks and reaches the caller.
ReadRow ==
    /\ ld_pc = "loop"
    /\ ld_row_number < MaxRows
    /\ \E raw_map \in RawRows(ld_dataset) :
          LET keys == key_columns(ld_dataset)
              pk == PrimaryKey(ld_dataset, raw_map)
              typed == typed_column_to_value_map(
                           imdb_dataset_table_infos[ld_dataset], raw_map)
              added == BulkInsert_add(ld_bulk, ld_txn, typed.result)
              left == BulkInsert_exit(ld_bulk, ld_txn, TRUE)
          IN  /\ ld_row_number' = ld_row_number + 1
              /\ ld_first' = IF pk \in DOMAIN ld_first THEN ld_first
                             ELSE ld_first @@ (pk :> raw_map)
              /\ IF is_duplicate(keys, ld_seen, raw_map)
                 THEN UNCHANGED <<ld_pc, ld_txn, ld_bulk, ld_seen, ld_error,
                                  ld_warnings, ld_emitted, ld_staging>>
                 ELSE /\ ld_seen' = ld_seen \cup {key_tuple(keys, raw_map)}
                      /\ ld_emitted' = Append(ld_emitted, raw_map)
                      /\ ld_warnings' = ld_warnings \o typed.warnings
                      /\ IF typed.kind = "ok"
                         THEN /\ ld_bulk' = added.bulk
                              /\ ld_txn' = added.table
                              /\ UNCHANGED <<ld_pc, ld_error, ld_staging>>
                         ELSE /\ ld_bulk' = left.bulk
                              /\ ld_txn' = left.table
                              /\ ld_error' = row_error(ld_dataset, ld_row_number + 1,
                                                       typed.error)
                              /\ ld_staging' =
                                    [ld_staging EXCEPT ![ld_dataset] =
                                        transaction_end(TRUE, ld_before, left.table)]
                              /\ ld_pc' = "failed"
    /\ UNCHANGED <<ld_bulk_size, ld_dataset, ld_before, ld_loads>>
    /\ UNCHANGED notLd

\* The reader is exhausted: the BulkInsert block ends normally (close), then the
\* transaction block (commit).
EndOfFile ==
    /\ ld_pc = "loop"
    /\ LET closed == BulkInsert_exit(ld_bulk, ld_txn, FALSE)
       IN  /\ ld_bulk' = closed.bulk
           /\ ld_txn' = closed.table
           /\ ld_staging' = [ld_staging EXCEPT ![ld_dataset] =
                                transaction_end(FALSE, ld_before, closed.table)]
    /\ ld_pc' = "done"
    /\ UNCHANGED <<ld_bulk_size, ld_dataset, ld_seen, ld_row_number, ld_error,
                   ld_warnings, ld_before, ld_emitted, ld_first, ld_loads>>
    /\ UNCHANGED notLd

\* metadata.drop_all() followed by metadata.create_all(): the MetaData of the
\* Database holds the staging tables too, so every one of them is dropped and
\* created anew, without rows.
drop_all_create_all(staging) == [d \in DOMAIN staging |-> <<>>]

\* What create_report_tables leaves of the staging tables.
staging_after_create_report_tables(staging, has_to_drop_tables) ==
    IF has_to_drop_tables THEN drop_all_create_all(staging) ELSE staging

\* create_report_tables on a Database built with either value of
\* has_to_drop_tables, after staging tables were loaded.
create_report_tables ==
    /\ ld_pc = "done"
    /\ \E has_to_drop_tables \in BOOLEAN :
          ld_staging' = staging_after_create_report_tables(ld_staging, has_to_drop_tables)
    /\ ld_pc' = "report_tables_created"
    /\ UNCHANGED <<ld_bulk_size, ld_dataset, ld_txn, ld_bulk, ld_seen, ld_row_number,
                   ld_error, ld_warnings, ld_before, ld_emitted, ld_first, ld_loads>>
    /\ UNCHANGED notLd

-----------------------------------------------------------------------------
(* Key-table materialization *)

\* json.loads on the texts the model uses: an array of string literals, a lone
\* string literal or a number are decoded, anything else does not parse.
\* (No white space, escapes or nested arrays occur in the model's texts.)
RECURSIVE json_strings(_)
json_strings(text) ==
    IF Len(text) < 2 \/ CharAt(text, 1) # "\""
    THEN [kind |-> "invalid"]
    ELSE LET rest == SubSeq(text, 2, Len(text))
             quote == Find(rest, "\"")
         IN  IF quote = 0 THEN [kind |-> "invalid"]
             ELSE LET item == SubSeq(rest, 1, quote - 1)
                      after == SubSeq(rest, quote + 1, Len(rest))
                  IN  IF after = "" THEN [kind |-> "list", items |-> <<item>>]
                      ELSE IF CharAt(after, 1) # "," THEN [kind |-> "invalid"]
                      ELSE LET more == json_strings(SubSeq(after, 2, Len(after)))
                           IN  IF more.kind = "list"
                               THEN [kind |-> "list", items |-> <<item>> \o more.items]
                               ELSE more

json_loads(text) ==
    IF Len(text) >= 2 /\ CharAt(text, 1) = "[" /\ CharAt(text, Len(text)) = "]"
    THEN IF Len(text) = 2 THEN [kind |-> "list", items |-> <<>>]
         ELSE json_strings(SubSeq(text, 2, Len(text) - 1))
    ELSE IF Len(text) >= 2 /\ CharAt(text, 1) = "\""
            /\ Find(SubSeq(text, 2, Len(text)), "\"") = Len(text) - 1
    THEN [kind |-> "str", value |-> SubSeq(text, 2, Len(text) - 1)]
    ELSE IF text # "" /\ IsDigits(text)
    THEN [kind |-> "int", value |-> DigitsValue(text)]
    ELSE [kind |-> "invalid"]

\* The values one raw value of the query adds to the set (lines 486-497), or
\* the PimdbError raised for it.
values_of_raw_value(raw_value, delimiter) ==
    IF delimiter = "None" THEN [kind |-> "ok", values |-> {raw_value}]
    ELSE IF delimiter = "json"
    THEN LET values_from_json == json_loads(raw_value)
         IN  IF values_from_json.kind = "invalid"
             THEN [kind |-> "PimdbError", what |-> "cannot extract JSON",
                   raw |-> raw_value]
             ELSE IF values_from_json.kind # "list"
             THEN [kind |-> "PimdbError", what |-> "JSON column must be a list",
                   raw |-> raw_value]
             ELSE [kind |-> "ok", values |-> Range(values_from_json.items)]
    ELSE [kind |-> "ok", values |-> Range(split(raw_value, delimiter))]

\* The loop of lines 485-497 over the rows of the query.
RECURSIVE query_values(_, _, _)
query_values(raw_values, delimiter, values) ==
    IF raw_values = <<>> THEN [kind |-> "ok", values |-> values]
    ELSE LET one == values_of_raw_value(Head(raw_values), delimiter)
         IN  IF one.kind = "ok"
             THEN query_values(Tail(raw_values), delimiter, values \cup one.values)
             ELSE one

\* The elements of a set in some order (iteration over a Python set).
RECURSIVE set_to_list(_)
set_to_list(values) ==
    IF values = {} THEN <<>>
    ELSE LET v == CHOOSE x \in values : TRUE
         IN  <<v>> \o set_to_list(values \ {v})

\* for value in ...: bulk_insert.add({"name": value}), then the normal exit.
RECURSIVE add_names(_, _, _)
add_names(b, table_rows, names) ==
    IF names = <<>> THEN BulkInsert_exit(b, table_rows, FALSE)
    ELSE LET added == BulkInsert_add(b, table_rows, [name |-> Head(names)])
         IN  add_names(added.bulk, added.table, Tail(names))

\* check_table_has_data: the warning logged when the table is empty.
check_table_has_data(table_rows) ==
    IF Len(table_rows) = 0
    THEN <<[message |-> "target table \"%s\" should contain rows but is empty",
            args |-> <<>>]>>
    ELSE <<>>

\* As sorted, but the values are taken in the order given.
sorted_as_given(values) == values

\* The order in which _build_key_table_from_values adds the values (line 508).
names_to_insert(values) == sorted(values)

\* As rows_after_delete, but the rows of the table are kept.
rows_after_no_delete(table_rows) == table_rows

\* connection.execute(table_to_build.delete()) (line 506).
rows_after_delete(table_rows) == <<>>

\* _build_key_table_from_values on a list of values: the rows of the table after
\* it, and the warnings logged.
build_key_table_rows(table_name, table_rows, values, bulk_size) ==
    LET built == add_names(BulkInsert_init(table_name, bulk_size),
                           rows_after_delete(table_rows), names_to_insert(values))
    IN  [table |-> built.table, warnings |-> check_table_has_data(built.table)]

\* Lists of distinct names, as a caller hands them over (a set or a list).
KeyNames == {"red", "green", "blue"}

RECURSIVE DistinctLists(_, _)
DistinctLists(names, n) ==
    IF n = 0 THEN {<<>>}
    ELSE LET shorter == DistinctLists(names, n - 1)
         IN  shorter \cup {l \in {Append(k, x) : k \in shorter, x \in names} :
                             \A i, j \in 1..Len(l) : i # j => l[i] # l[j]}

\* The values a query over staging returns in one column.
QueryValues ==
    {"Comedy,", "[\"Alice\",\"Bob\"]", "[\"Bob\",\"Carol\"]"}

RECURSIVE Lists(_, _)
Lists(values, n) ==
    IF n = 0 THEN {<<>>}
    ELSE LET shorter == Lists(values, n - 1)
         IN  shorter \cup {Append(l, x) : l \in shorter, x \in values}

Delimiters == {"None", ",", "json"}

\* The inputs of the two calls.
ValueLists == DistinctLists(KeyNames, Cardinality(KeyNames))
QueryResults == Lists(QueryValues, MaxQueryRows)

KeyInit ==
    /\ key_bulk_size \in 1..MaxBulk
    /\ key_table = <<>>
    /\ key_call = [op |-> "none"]
    /\ key_out = [kind |-> "none"]
    /\ key_builds = 0

build_key_table_from_values ==
    /\ key_builds < MaxBuilds
    /\ \E values \in ValueLists :
          LET built == build_key_table_rows("genre", key_table, values, key_bulk_size)
          IN  /\ key_call' = [op |-> "values", values |-> values]
              /\ key_table' = built.table
              /\ key_out' = [kind |-> "ok", warnings |-> built.warnings]
    /\ key_builds' = key_builds + 1
    /\ UNCHANGED key_bulk_size
    /\ UNCHANGED notKey

build_key_table_from_query ==
    /\ key_builds < MaxBuilds
    /\ \E raw_values \in QueryResults, delimiter \in Delimiters :
          LET queried == query_values(raw_values, delimiter, {})
              built == build_key_table_rows("genre", key_table,
                                            set_to_list(queried.values), key_bulk_size)
          IN  IF queried.kind = "ok"
              THEN /\ key_call' = [op |-> "query", raw_values |-> raw_values,
                                   delimiter |-> delimiter]
                   /\ key_table' = built.table
                   /\ key_out' = [kind |-> "ok", warnings |-> built.warnings]
              ELSE /\ key_call' = [op |-> "query", delimiter |-> delimiter]
                   /\ key_table' = key_table
                   /\ key_out' = queried
    /\ key_builds' = key_builds + 1
    /\ UNCHANGED key_bulk_size
    /\ UNCHANGED notKey

-----------------------------------------------------------------------------
(* Report builder: queries over the tables *)

\* A nullable string column holds None exactly where the file holds the null
\* sentinel; the model keeps the text of the file for it.
SqlNull == NULL_SENTINEL

\* The same types in alphabetical order.
IMDB_TITLE_ALIAS_TYPES_sorted ==
    <<"alternative", "dvd", "festival", "imdbDisplay", "original", "tv", "video",
      "working">>

IMDB_TITLE_ALIAS_TYPES ==
    <<"alternative", "dvd", "festival", "tv", "video", "working", "original",
      "imdbDisplay">>

StagingNames ==
    {"title_basics", "name_basics", "title_akas", "title_crew", "title_principals",
     "title_ratings"}

ReportTableNames ==
    {"character", "characters_to_character", "genre", "profession", "title_type",
     "name", "name_to_known_for_title", "participation",
     "participation_to_character", "title", "title_alias",
     "title_alias_to_title_alias_type", "title_alias_type", "title_to_director",
     "title_to_genre", "title_to_writer"}

\* log.warning(message, *args)
warning(message, args) == [message |-> message, args |-> args]

\* The values of one column, row by row.
column_of(table_rows, column) == [i \in 1..Len(table_rows) |-> table_rows[i][column]]

\* select(...).distinct(): each value once, in the order of first appearance.
RECURSIVE distinct(_)
distinct(values) ==
    IF values = <<>> THEN <<>>
    ELSE LET before == distinct(SubSeq(values, 1, Len(values) - 1))
             last == values[Len(values)]
         IN  IF last \in Range(before) THEN before ELSE Append(before, last)

\* where(column.isnot(None))
RECURSIVE isnot_none(_)
isnot_none(values) ==
    IF values = <<>> THEN <<>>
    ELSE (IF Head(values) = SqlNull THEN <<>> ELSE <<Head(values)>>)
             \o isnot_none(Tail(values))

\* The rows of a table for which a column has a value, in table order.
RECURSIVE rows_where(_, _, _)
rows_where(table_rows, column, value) ==
    IF table_rows = <<>> THEN <<>>
    ELSE (IF Head(table_rows)[column] = value THEN <<Head(table_rows)>> ELSE <<>>)
             \o rows_where(Tail(table_rows), column, value)

\* The concatenation of a sequence of sequences.
RECURSIVE concat(_)
concat(lists) == IF lists = <<>> THEN <<>> ELSE Head(lists) \o concat(Tail(lists))

\* _natural_key_to_id_map: the dict from the natural key of a table to its id.
natural_key_to_id_map(table_rows, natural_key_column) ==
    [key \in {r[natural_key_column] : r \in Range(table_rows)} |->
        LET last == CHOOSE i \in 1..Len(table_rows) :
                        /\ table_rows[i][natural_key_column] = key
                        /\ \A j \in (i + 1)..Len(table_rows) :
                              table_rows[j][natural_key_column] # key
        IN  table_rows[last].id]

\* with BulkInsert(...) as bulk_insert: bulk_insert.add(row) for every row.
RECURSIVE add_rows(_, _, _)
add_rows(b, table_rows, rows) ==
    IF rows = <<>> THEN BulkInsert_exit(b, table_rows, FALSE)
    ELSE LET added == BulkInsert_add(b, table_rows, Head(rows))
         IN  add_rows(added.bulk, added.table, Tail(rows))

\* delete() of the target, then the rows through a BulkInsert.
rebuilt_with_bulk_insert(table_name, rows, bulk_size) ==
    add_rows(BulkInsert_init(table_name, bulk_size), <<>>, rows).table

\* delete() of the target, then insert().from_select(...) of the selected rows.
rebuilt_from_select(table_name, rows) == insert_rows(table_name, <<>>, rows)

\* A check that compares nothing and logs nothing.
check_table_count_silent(source_name, source_rows, target_name, target_rows) == <<>>

\* check_table_count: the warning logged when the counts differ.
check_table_count(source_name, source_rows, target_name, target_rows) ==
    IF Len(target_rows) # Len(source_rows)
    THEN <<warning("target table \"%s\" has %d rows but should have %d same as source table \"%s\"",
                   <<target_name, Len(target_rows), Len(source_rows), source_name>>)>>
    ELSE <<>>

-----------------------------------------------------------------------------
(* Report builder: key tables *)

build_title_alias_type_table_rows(tables, bulk_size) ==
    build_key_table_rows("title_alias_type", tables["title_alias_type"],
                         IMDB_TITLE_ALIAS_TYPES, bulk_size)

build_title_type_table_rows(staging, tables, bulk_size) ==
    LET query == distinct(column_of(staging["title_basics"], "titleType"))
    IN  build_key_table_rows("title_type", tables["title_type"],
                             set_to_list(query_values(query, "None", {}).values),
                             bulk_size)

build_genre_table_rows(staging, tables, bulk_size) ==
    LET query == distinct(isnot_none(column_of(staging["title_basics"], "genres")))
    IN  build_key_table_rows("genre", tables["genre"],
                             set_to_list(query_values(query, ",", {}).values),
                             bulk_size)

build_profession_table_rows(staging, tables, bulk_size) ==
    LET query == distinct(column_of(staging["title_principals"], "category"))
    IN  build_key_table_rows("profession", tables["profession"],
                             set_to_list(query_values(query, "None", {}).values),
                             bulk_size)

-----------------------------------------------------------------------------
(* Report builder: name and title *)

\* build_name_table: the projection of name_basics, in its order.  Columns that
\* no relation refers to are left out of the rows.
build_name_table_rows(staging) ==
    rebuilt_from_select("name",
        [i \in 1..Len(staging["name_basics"]) |->
            [nconst |-> staging["name_basics"][i].nconst]])

\* A select that takes the zero for every title, rated or not.
coalesce_rating_zero(ratings, column, zero) == zero

\* coalesce(column, 0) over the outer join with title_ratings.
coalesce_rating(ratings, column, zero) ==
    IF ratings = <<>> THEN zero ELSE ratings[1][column]

\* build_title_table: title_basics joined to title_type by name, outer joined
\* to title_ratings; the rows come in title_basics order.
select_title_rows(staging, tables) ==
    concat([i \in 1..Len(staging["title_basics"]) |->
        LET title_basics == staging["title_basics"][i]
            title_types == rows_where(tables["title_type"], "name", title_basics.titleType)
            ratings == rows_where(staging["title_ratings"], "tconst", title_basics.tconst)
        IN  [j \in 1..Len(title_types) |->
                [tconst |-> title_basics.tconst,
                 title_type_id |-> title_types[j].id,
                 average_rating |-> coalesce_rating(ratings, "averageRating", PyFloat(0, 0)),
                 rating_count |-> coalesce_rating(ratings, "numVotes", 0)]]])

build_title_table_rows(staging, tables) ==
    LET built == rebuilt_from_select("title", select_title_rows(staging, tables))
    IN  [table |-> built,
         warnings |-> check_table_count("title_basics", staging["title_basics"],
                                        "title", built)]

-----------------------------------------------------------------------------
(* Report builder: ordered relations built row by row *)

\* for ordering, genre in enumerate(genres.split(","), start=1)
genre_rows(title_id, genres, genre_name_to_id_map) ==
    LET names == split(genres, ",")
    IN  [k \in 1..Len(names) |->
            [genre_id |-> genre_name_to_id_map[names[k]], ordering |-> k,
             title_id |-> title_id]]

\* title joined to a staging table by tconst, for the rows where the column is
\* not null: the title row with the value of the column, in title order.
title_joined(staging_rows, tables, column) ==
    concat([i \in 1..Len(tables["title"]) |->
        LET title == tables["title"][i]
            joined == rows_where(staging_rows, "tconst", title.tconst)
        IN  concat([j \in 1..Len(joined) |->
                IF joined[j][column] = SqlNull THEN <<>>
                ELSE <<[id |-> title.id, tconst |-> title.tconst,
                        value |-> joined[j][column]]>>])])

build_title_to_genre_table_rows(staging, tables, bulk_size) ==
    LET genre_name_to_id_map == natural_key_to_id_map(tables["genre"], "name")
        selected == title_joined(staging["title_basics"], tables, "genres")
    IN  rebuilt_with_bulk_insert("title_to_genre",
            concat([i \in 1..Len(selected) |->
                genre_rows(selected[i].id, selected[i].value, genre_name_to_id_map)]),
            bulk_size)

\* The loop of lines 840-853 (and 709-722) over the tokens of one source row:
\* a token the map knows gets the next ordering, any other one is skipped.
RECURSIVE resolved_tokens(_, _, _)
resolved_tokens(tokens, key_to_id_map, ordering) ==
    IF tokens = <<>> THEN <<>>
    ELSE IF Head(tokens) \in DOMAIN key_to_id_map
    THEN <<[ordering |-> ordering + 1, id |-> key_to_id_map[Head(tokens)]]>>
             \o resolved_tokens(Tail(tokens), key_to_id_map, ordering + 1)
    ELSE resolved_tokens(Tail(tokens), key_to_id_map, ordering)

\* nconst_to_name_id_map: the map is read from the name table when the Database
\* has none yet, and kept from then on.
cached_nconst_to_name_id_map(cache, tables) ==
    IF ~cache.cached
    THEN [cached |-> TRUE, map |-> natural_key_to_id_map(tables["name"], "nconst")]
    ELSE cache

\* _build_title_to_crew_table, given the map of nconst_to_name_id_map.
build_title_to_crew_table_rows(staging, tables, column, target_table, name_id_map, bulk_size) ==
    LET column_with_nconsts_name == column
        nconst_to_name_id_map == name_id_map
        selected == title_joined(staging["title_crew"], tables, column_with_nconsts_name)
    IN  rebuilt_with_bulk_insert(target_table,
            concat([i \in 1..Len(selected) |->
                LET resolved == resolved_tokens(split(selected[i].value, ","),
                                                nconst_to_name_id_map, 0)
                IN  [k \in 1..Len(resolved) |->
                        [name_id |-> resolved[k].id, ordering |-> resolved[k].ordering,
                         title_id |-> selected[i].id]]]),
            bulk_size)

\* name joined to name_basics by nconst where knownForTitles is not null.
select_known_for_title_tconsts(staging, tables) ==
    concat([i \in 1..Len(tables["name"]) |->
        LET name == tables["name"][i]
            joined == rows_where(staging["name_basics"], "nconst", name.nconst)
        IN  concat([j \in 1..Len(joined) |->
                IF joined[j].knownForTitles = SqlNull THEN <<>>
                ELSE <<[id |-> name.id, nconst |-> name.nconst,
                        value |-> joined[j].knownForTitles]>>])])

build_name_to_known_for_title_table_rows(staging, tables, bulk_size) ==
    LET tconst_to_title_id_map == natural_key_to_id_map(tables["title"], "tconst")
        selected == select_known_for_title_tconsts(staging, tables)
    IN  rebuilt_with_bulk_insert("name_to_known_for_title",
            concat([i \in 1..Len(selected) |->
                LET resolved == resolved_tokens(split(selected[i].value, ","),
                                                tconst_to_title_id_map, 0)
                IN  [k \in 1..Len(resolved) |->
                        [name_id |-> selected[i].id, ordering |-> resolved[k].ordering,
                         title_id |-> resolved[k].id]]]),
            bulk_size)

-----------------------------------------------------------------------------
(* Report builder: title aliases *)

\* build_title_alias_table: title joined to title_akas by tconst = titleId.
select_title_alias_rows(staging, tables) ==
    concat([i \in 1..Len(tables["title"]) |->
        LET title == tables["title"][i]
            joined == rows_where(staging["title_akas"], "titleId", title.tconst)
        IN  [j \in 1..Len(joined) |->
                [title_id |-> title.id, ordering |-> joined[j].ordering]]])

build_title_alias_table_rows(staging, tables) ==
    LET built == rebuilt_from_select("title_alias", select_title_alias_rows(staging, tables))
    IN  [table |-> built, warnings |-> check_table_has_data(built)]

\* sub in s
contains(s, sub) == Find(s, sub) # 0

\* s.replace(old, new)
RECURSIVE replace(_, _, _)
replace(s, old, new) ==
    LET i == Find(s, old)
    IN  IF i = 0 THEN s
        ELSE SubSeq(s, 1, i - 1) \o new
                 \o replace(SubSeq(s, i + Len(old), Len(s)), old, new)

\* The loop of lines 861-866 over the enumerated types.
RECURSIVE match_title_alias_types(_, _, _)
match_title_alias_types(types_to_check, remaining_raw_title_alias_types, result) ==
    IF types_to_check = <<>>
    THEN [result |-> result, remaining |-> remaining_raw_title_alias_types]
    ELSE LET title_alias_type_to_check == Head(types_to_check)
         IN  IF contains(remaining_raw_title_alias_types, title_alias_type_to_check)
             THEN match_title_alias_types(Tail(types_to_check),
                      replace(remaining_raw_title_alias_types,
                              title_alias_type_to_check, ""),
                      Append(result, title_alias_type_to_check))
             ELSE match_title_alias_types(Tail(types_to_check),
                      remaining_raw_title_alias_types, result)

\* The body of mappable_title_alias_types: the result, the unknown types and
\* the warnings after it.
mappable_title_alias_types_body(raw_title_types, unknown_title_alias_types) ==
    IF raw_title_types = ""
    THEN [result |-> <<>>, unknown |-> unknown_title_alias_types, warnings |-> <<>>]
    ELSE LET matched == match_title_alias_types(IMDB_TITLE_ALIAS_TYPES,
                                                raw_title_types, <<>>)
         IN  IF matched.remaining # ""
                /\ matched.remaining \notin unknown_title_alias_types
             THEN [result |-> matched.result,
                   unknown |-> unknown_title_alias_types \cup {matched.remaining},
                   warnings |->
                       <<warning("cannot map %s.types \"%s\" to a known type: IMDB_TITLE_ALIAS_TYPES should be extended accordingly",
                                 <<"title_akas", matched.remaining>>)>>]
             ELSE [result |-> matched.result, unknown |-> unknown_title_alias_types,
                   warnings |-> <<>>]

\* mappable_title_alias_types under functools.lru_cache: a raw value seen
\* before on this Database gives the remembered result and nothing else.
mappable_title_alias_types(raw_title_types, lru_cache, unknown_title_alias_types) ==
    IF raw_title_types \in DOMAIN lru_cache
    THEN [result |-> lru_cache[raw_title_types], lru_cache |-> lru_cache,
          unknown |-> unknown_title_alias_types, warnings |-> <<>>]
    ELSE LET called == mappable_title_alias_types_body(raw_title_types,
                                                       unknown_title_alias_types)
         IN  [result |-> called.result,
              lru_cache |-> lru_cache @@ (raw_title_types :> called.result),
              unknown |-> called.unknown, warnings |-> called.warnings]

\* title_alias joined to title and to title_akas (same title, same ordering)
\* where types is not null.
select_title_akas_data(staging, tables) ==
    concat([i \in 1..Len(tables["title_alias"]) |->
        LET title_alias == tables["title_alias"][i]
            titles == rows_where(tables["title"], "id", title_alias.title_id)
        IN  concat([j \in 1..Len(titles) |->
                LET joined == rows_where(rows_where(staging["title_akas"], "titleId",
                                                    titles[j].tconst),
                                         "ordering", title_alias.ordering)
                IN  concat([k \in 1..Len(joined) |->
                        IF joined[k].types = SqlNull THEN <<>>
                        ELSE <<[id |-> title_alias.id, types |-> joined[k].types]>>])])])

\* The loop of lines 936-949: the rows added, the lru_cache, the unknown types
\* and the warnings after the selected rows from position i on.
RECURSIVE title_alias_type_rows(_, _, _, _, _)
title_alias_type_rows(selected, i, name_to_id_map, lru_cache, unknown) ==
    LET title_alias_type_name_to_id_map == name_to_id_map
        unknown_title_alias_types == unknown
    IN
    IF i > Len(selected)
    THEN [rows |-> <<>>, lru_cache |-> lru_cache,
          unknown |-> unknown_title_alias_types, warnings |-> <<>>]
    ELSE LET mapped == mappable_title_alias_types(selected[i].types, lru_cache,
                                                  unknown_title_alias_types)
             rest == title_alias_type_rows(selected, i + 1,
                                           title_alias_type_name_to_id_map,
                                           mapped.lru_cache, mapped.unknown)
         IN  [rows |->
                  [k \in 1..Len(mapped.result) |->
                      [title_alias_id |-> selected[i].id, ordering |-> k,
                       title_alias_type_id |->
                           title_alias_type_name_to_id_map[mapped.result[k]]]]
                  \o rest.rows,
              lru_cache |-> rest.lru_cache, unknown |-> rest.unknown,
              warnings |-> mapped.warnings \o rest.warnings]

\* build_title_alias_to_title_alias_type_table: the unknown types start as an
\* empty set on every call, the lru_cache is the one of the Database.
build_title_alias_to_title_alias_type_table_rows(staging, tables, lru_cache, bulk_size) ==
    LET title_alias_type_name_to_id_map ==
            natural_key_to_id_map(tables["title_alias_type"], "name")
        looped == title_alias_type_rows(select_title_akas_data(staging, tables), 1,
                                        title_alias_type_name_to_id_map, lru_cache, {})
    IN  [table |-> rebuilt_with_bulk_insert("title_alias_to_title_alias_type",
                                            looped.rows, bulk_size),
         lru_cache |-> looped.lru_cache, unknown |-> looped.unknown,
         warnings |-> looped.warnings]

-----------------------------------------------------------------------------
(* Report builder: characters and participations *)

\* A lookup that takes the counter for the id of every name, known or new.
character_id_of_counter(character_names, character_name) == Len(character_names)

\* The position of a name in the list of character names: its character id.
character_id_of(character_names, character_name) ==
    CHOOSE i \in 1..Len(character_names) : character_names[i] = character_name

\* The loop of lines 599-605 over the names of one decoded array, from
\* position ordering on: the rows added and the character names after it.
RECURSIVE character_rows(_, _, _, _)
character_rows(characters, names_from_json, ordering, character_names) ==
    IF ordering > Len(names_from_json)
    THEN [rows |-> <<>>, character_names |-> character_names]
    ELSE LET character_name == names_from_json[ordering]
             known == IF character_name \in Range(character_names)
                      THEN character_names
                      ELSE Append(character_names, character_name)
             rest == character_rows(characters, names_from_json, ordering + 1, known)
         IN  [rows |-> <<[characters |-> characters,
                          character_id |-> character_id_of(known, character_name),
                          ordering |-> ordering]>> \o rest.rows,
              character_names |-> rest.character_names]

\* The loop of lines 586-605 over the distinct characters values: the rows and
\* the character names, or the PimdbError of the first value that is no JSON
\* list.
RECURSIVE characters_rows(_, _)
characters_rows(selected, character_names) ==
    IF selected = <<>>
    THEN [kind |-> "ok", rows |-> <<>>, character_names |-> character_names]
    ELSE LET characters == Head(selected)
             characters_names_from_json == json_loads(characters)
         IN  IF characters_names_from_json.kind = "invalid"
             THEN [kind |-> "PimdbError", what |-> "cannot JSON parse",
                   raw |-> characters]
             ELSE IF characters_names_from_json.kind # "list"
             THEN [kind |-> "PimdbError", what |-> "must be a JSON list",
                   raw |-> characters]
             ELSE LET one == character_rows(characters,
                                            characters_names_from_json.items, 1,
                                            character_names)
                      rest == characters_rows(Tail(selected), one.character_names)
                  IN  IF rest.kind = "ok"
                      THEN [kind |-> "ok", rows |-> one.rows \o rest.rows,
                            character_names |-> rest.character_names]
                      ELSE rest

\* The first transaction of
\* build_characters_to_character_and_character_table; the names start with
\* the empty name of the dummy character, whose id is 1.
build_characters_to_character_table_rows(staging, bulk_size) ==
    LET select_characters ==
            distinct(isnot_none(column_of(staging["title_principals"], "characters")))
        looped == characters_rows(select_characters, <<"">>)
    IN  IF looped.kind = "ok"
        THEN [kind |-> "ok",
              table |-> rebuilt_with_bulk_insert("characters_to_character",
                                                 looped.rows, bulk_size),
              character_names |-> looped.character_names]
        ELSE looped

\* The second transaction: one row per entry of the map, with its id.
build_character_table_rows(character_names, bulk_size) ==
    rebuilt_with_bulk_insert("character",
        [i \in 1..Len(character_names) |-> [id |-> i, name |-> character_names[i]]],
        bulk_size)

\* title_principals joined to name, title and profession, in its order.
select_participation_rows(staging, tables) ==
    concat([i \in 1..Len(staging["title_principals"]) |->
        LET title_principals == staging["title_principals"][i]
            names == rows_where(tables["name"], "nconst", title_principals.nconst)
            titles == rows_where(tables["title"], "tconst", title_principals.tconst)
            professions == rows_where(tables["profession"], "name",
                                      title_principals.category)
        IN  concat([n \in 1..Len(names) |->
                concat([t \in 1..Len(titles) |->
                    [p \in 1..Len(professions) |->
                        [title_id |-> titles[t].id,
                         ordering |-> title_principals.ordering,
                         name_id |-> names[n].id,
                         profession_id |-> professions[p].id]]])])])

build_participation_table_rows(staging, tables) ==
    LET built == rebuilt_from_select("participation",
                                     select_participation_rows(staging, tables))
    IN  [table |-> built,
         warnings |-> check_table_count("title_principals", staging["title_principals"],
                                        "participation", built)]

\* The title_principals rows a participation joins to (lines 641-650).
principals_of(participation, staging, tables) ==
    LET names == rows_where(tables["name"], "id", participation.name_id)
        titles == rows_where(tables["title"], "id", participation.title_id)
    IN  concat([n \in 1..Len(names) |->
            concat([t \in 1..Len(titles) |->
                rows_where(rows_where(rows_where(staging["title_principals"],
                                                 "nconst", names[n].nconst),
                                      "tconst", titles[t].tconst),
                           "ordering", participation.ordering)])])

\* The select of lines 633-657, before distinct().
select_participation_to_character_rows(staging, tables) ==
    concat([i \in 1..Len(tables["participation"]) |->
        LET participation == tables["participation"][i]
            principals == principals_of(participation, staging, tables)
        IN  concat([j \in 1..Len(principals) |->
                LET characters_to_character ==
                        IF principals[j].characters = SqlNull THEN <<>>
                        ELSE rows_where(tables["characters_to_character"],
                                        "characters", principals[j].characters)
                    professions == rows_where(tables["profession"], "name",
                                              principals[j].category)
                IN  concat([c \in 1..Len(characters_to_character) |->
                        [p \in 1..Len(professions) |->
                            [participation_id |-> participation.id,
                             ordering |-> characters_to_character[c].ordering,
                             character_id |->
                                 characters_to_character[c].character_id]]])])])

build_participation_to_character_table_rows(staging, tables) ==
    LET built == rebuilt_from_select("participation_to_character",
                     distinct(select_participation_to_character_rows(staging, tables)))
    IN  [table |-> built, warnings |-> check_table_has_data(built)]

-----------------------------------------------------------------------------
(* Report builder: the staging contents and the builds of a Database *)

\* The order in which the report tables are built.
BuildOrder ==
    <<"title_type", "genre", "profession", "title_alias_type", "name", "title",
      "title_to_genre", "title_to_director", "title_to_writer",
      "name_to_known_for_title", "title_alias", "title_alias_to_title_alias_type",
      "characters_to_character", "character", "participation",
      "participation_to_character">>

StepOf(table_name) == CHOOSE i \in 1..Len(BuildOrder) : BuildOrder[i] = table_name

LastStep == Len(BuildOrder)

\* Contents of the staging tables as build_dataset_table leaves them.  Every
\* category has a value; tt9, nm9 and tt3 are keys without a row of their own.
TitleBasicsContents ==
    {<<[tconst |-> "tt1", titleType |-> "movie", genres |-> "Drama,Comedy"],
       [tconst |-> "tt2", titleType |-> "short", genres |-> SqlNull]>>,
     <<[tconst |-> "tt2", titleType |-> "movie", genres |-> "Comedy"]>>}

NameBasicsContents ==
    {<<[nconst |-> "nm1", knownForTitles |-> "tt1,tt9,tt2"],
       [nconst |-> "nm2", knownForTitles |-> SqlNull]>>,
     <<[nconst |-> "nm2", knownForTitles |-> "tt2"]>>,
     <<[nconst |-> "nm2", knownForTitles |-> "tt2"],
       [nconst |-> "nm1", knownForTitles |-> "tt1"]>>}

TitleAkasContents ==
    {<<[titleId |-> "tt1", ordering |-> 1, types |-> "imdbDisplay original garbage"],
       [titleId |-> "tt1", ordering |-> 2, types |-> SqlNull],
       [titleId |-> "tt2", ordering |-> 1, types |-> "alternative working"],
       [titleId |-> "tt9", ordering |-> 1, types |-> "dvd"]>>,
     <<[titleId |-> "tt2", ordering |-> 1, types |-> "video tv"],
       [titleId |-> "tt2", ordering |-> 2, types |-> "vidvddeo"],
       [titleId |-> "tt1", ordering |-> 1, types |-> "dvdgarbage"],
       [titleId |-> "tt2", ordering |-> 3, types |-> "garbage"]>>}

TitleCrewContents ==
    {<<[tconst |-> "tt1", directors |-> "nm1,nm9,nm2", writers |-> "nm2"],
       [tconst |-> "tt2", directors |-> SqlNull, writers |-> "nm9"]>>,
     <<[tconst |-> "tt1", directors |-> "nm2", writers |-> SqlNull],
       [tconst |-> "tt3", directors |-> "nm1", writers |-> "nm1"]>>}

TitlePrincipalsContents ==
    {<<[tconst |-> "tt1", ordering |-> 1, nconst |-> "nm1", category |-> "actor",
        characters |-> "[\"Alice\",\"Bob\"]"],
       [tconst |-> "tt1", ordering |-> 2, nconst |-> "nm2", category |-> "director",
        characters |-> SqlNull],
       [tconst |-> "tt2", ordering |-> 1, nconst |-> "nm9", category |-> "actor",
        characters |-> "[\"Bob\"]"],
       [tconst |-> "tt2", ordering |-> 2, nconst |-> "nm2", category |-> "actor",
        characters |-> "[\"Alice\",\"Bob\"]"]>>,
     <<[tconst |-> "tt2", ordering |-> 1, nconst |-> "nm2", category |-> "actor",
        characters |-> "[\"Bob\"]"],
       [tconst |-> "tt2", ordering |-> 2, nconst |-> "nm1", category |-> "self",
        characters |-> "[\"Bob\",\"Alice\"]"],
       [tconst |-> "tt2", ordering |-> 3, nconst |-> "nm2", category |-> "actor",
        characters |-> "[\"\"]"]>>,
     <<[tconst |-> "tt1", ordering |-> 1, nconst |-> "nm1", category |-> "actor",
        characters |-> "not-json"]>>}

TitleRatingsContents ==
    {<<[tconst |-> "tt1", averageRating |-> PyFloat(75, 1), numVotes |-> 10]>>}

StagingContents ==
    [title_basics |-> TitleBasicsContents, name_basics |-> NameBasicsContents,
     title_akas |-> TitleAkasContents, title_crew |-> TitleCrewContents,
     title_principals |-> TitlePrincipalsContents,
     title_ratings |-> TitleRatingsContents]

NoError == [kind |-> "none"]

RpIdle ==
    /\ rp_bulk_size = 0
    /\ rp_staging = <<>>
    /\ rp_tables = <<>>
    /\ rp_nconst_to_name_id_map = [cached |-> FALSE]
    /\ rp_lru_cache = <<>>
    /\ rp_unknown_title_alias_types = PyNone
    /\ rp_character_names = <<>>
    /\ rp_done = 0
    /\ rp_error = NoError
    /\ rp_log = <<>>
    /\ rp_runs = 0
    /\ rp_cached_at = 0

\* A Database on which create_imdb_dataset_tables, the six build_dataset_table
\* and create_report_tables have run.
RpInit ==
    /\ rp_bulk_size = MaxBulk
    /\ \E title_basics \in TitleBasicsContents, name_basics \in NameBasicsContents,
          title_akas \in TitleAkasContents, title_crew \in TitleCrewContents,
          title_principals \in TitlePrincipalsContents,
          title_ratings \in TitleRatingsContents :
          rp_staging = [title_basics |-> title_basics, name_basics |-> name_basics,
                        title_akas |-> title_akas, title_crew |-> title_crew,
                        title_principals |-> title_principals,
                        title_ratings |-> title_ratings]
    /\ rp_tables = [t \in ReportTableNames |-> <<>>]
    /\ rp_nconst_to_name_id_map = [cached |-> FALSE]
    /\ rp_lru_cache = <<>>
    /\ rp_unknown_title_alias_types = PyNone
    /\ rp_character_names = <<>>
    /\ rp_done = 0
    /\ rp_error = NoError
    /\ rp_log = <<>>
    /\ rp_runs = 0
    /\ rp_cached_at = 0

\* What a build that commits does to the tables and to the log.
Committed(table_name, table_rows, warnings) ==
    /\ rp_error = NoError
    /\ rp_tables' = [rp_tables EXCEPT ![table_name] = table_rows]
    /\ rp_log' = warnings
    /\ rp_done' = StepOf(table_name)
    /\ rp_error' = rp_error
    /\ UNCHANGED <<rp_bulk_size, rp_staging>>
    /\ UNCHANGED notRp

build_title_type_table ==
    /\ rp_done \in {0, LastStep}
    /\ rp_runs < MaxRuns
    /\ LET built == build_title_type_table_rows(rp_staging, rp_tables, rp_bulk_size)
       IN  Committed("title_type", built.table, built.warnings)
    /\ rp_runs' = rp_runs + 1
    /\ UNCHANGED <<rpInstance, rp_character_names>>

build_genre_table ==
    /\ rp_done = StepOf("genre") - 1
    /\ LET built == build_genre_table_rows(rp_staging, rp_tables, rp_bulk_size)
       IN  Committed("genre", built.table, built.warnings)
    /\ UNCHANGED <<rpInstance, rp_character_names, rp_runs>>

build_profession_table ==
    /\ rp_done = StepOf("profession") - 1
    /\ LET built == build_profession_table_rows(rp_staging, rp_tables, rp_bulk_size)
       IN  Committed("profession", built.table, built.warnings)
    /\ UNCHANGED <<rpInstance, rp_character_names, rp_runs>>

build_title_alias_type_table ==
    /\ rp_done = StepOf("title_alias_type") - 1
    /\ LET built == build_title_alias_type_table_rows(rp_tables, rp_bulk_size)
       IN  Committed("title_alias_type", built.table, built.warnings)
    /\ UNCHANGED <<rpInstance, rp_character_names, rp_runs>>

build_name_table ==
    /\ rp_done = StepOf("name") - 1
    /\ Committed("name", build_name_table_rows(rp_staging), <<>>)
    /\ UNCHANGED <<rpInstance, rp_character_names, rp_runs>>

build_title_table ==
    /\ rp_done = StepOf("title") - 1
    /\ LET built == build_title_table_rows(rp_staging, rp_tables)
       IN  Committed("title", built.table, built.warnings)
    /\ UNCHANGED <<rpInstance, rp_character_names, rp_runs>>

build_title_to_genre_table ==
    /\ rp_done = StepOf("title_to_genre") - 1
    /\ Committed("title_to_genre",
                 build_title_to_genre_table_rows(rp_staging, rp_tables, rp_bulk_size),
                 <<>>)
    /\ UNCHANGED <<rpInstance, rp_character_names, rp_runs>>

\* _build_title_to_crew_table for one column of title_crew: what it does to the
\* Database and to the target table, the call of nconst_to_name_id_map first.
title_to_crew_table_built(column_with_nconsts_name, target_table) ==
    /\ rp_done = StepOf(target_table) - 1
    /\ LET nconst_to_name_id_map ==
               cached_nconst_to_name_id_map(rp_nconst_to_name_id_map, rp_tables)
       IN  /\ rp_nconst_to_name_id_map' = nconst_to_name_id_map
           /\ Committed(target_table,
                        build_title_to_crew_table_rows(rp_staging, rp_tables,
                            column_with_nconsts_name, target_table,
                            nconst_to_name_id_map.map, rp_bulk_size),
                        <<>>)
    /\ rp_cached_at' = IF rp_nconst_to_name_id_map.cached THEN rp_cached_at ELSE rp_runs
    /\ UNCHANGED <<rp_lru_cache, rp_unknown_title_alias_types, rp_character_names,
                   rp_runs>>

build_title_to_director_table ==
    /\ rp_done = StepOf("title_to_director") - 1
    /\ title_to_crew_table_built("directors", "title_to_director")

build_title_to_writer_table ==
    /\ rp_done = StepOf("title_to_writer") - 1
    /\ title_to_crew_table_built("writers", "title_to_writer")

build_name_to_known_for_title_table ==
    /\ rp_done = StepOf("name_to_known_for_title") - 1
    /\ Committed("name_to_known_for_title",
                 build_name_to_known_for_title_table_rows(rp_staging, rp_tables,
                                                          rp_bulk_size),
                 <<>>)
    /\ UNCHANGED <<rpInstance, rp_character_names, rp_runs>>

build_title_alias_table ==
    /\ rp_done = StepOf("title_alias") - 1
    /\ LET built == build_title_alias_table_rows(rp_staging, rp_tables)
       IN  Committed("title_alias", built.table, built.warnings)
    /\ UNCHANGED <<rpInstance, rp_character_names, rp_runs>>

build_title_alias_to_title_alias_type_table ==
    /\ rp_done = StepOf("title_alias_to_title_alias_type") - 1
    /\ LET built == build_title_alias_to_title_alias_type_table_rows(
                        rp_staging, rp_tables, rp_lru_cache, rp_bulk_size)
       IN  /\ Committed("title_alias_to_title_alias_type", built.table, built.warnings)
           /\ rp_lru_cache' = built.lru_cache
           /\ rp_unknown_title_alias_types' = [t |-> "set", v |-> built.unknown]
    /\ UNCHANGED <<rp_nconst_to_name_id_map, rp_cached_at, rp_character_names, rp_runs>>

\* The first transaction of build_characters_to_character_and_character_table:
\* it commits the rows of characters_to_character, or is rolled back by the
\* PimdbError, which ends the build.
build_characters_to_character_table ==
    /\ rp_done = StepOf("characters_to_character") - 1
    /\ rp_error = NoError
    /\ LET built == build_characters_to_character_table_rows(rp_staging, rp_bulk_size)
       IN  IF built.kind = "ok"
           THEN /\ Committed("characters_to_character", built.table, <<>>)
                /\ rp_character_names' = built.character_names
           ELSE /\ rp_error' = built
                /\ rp_log' = <<>>
                /\ UNCHANGED <<rp_tables, rp_done, rp_character_names, rp_bulk_size,
                               rp_staging>>
                /\ UNCHANGED notRp
    /\ UNCHANGED <<rpInstance, rp_runs>>

\* The second transaction of build_characters_to_character_and_character_table.
build_character_table ==
    /\ rp_done = StepOf("character") - 1
    /\ Committed("character", build_character_table_rows(rp_character_names, rp_bulk_size),
                 <<>>)
    /\ UNCHANGED <<rpInstance, rp_character_names, rp_runs>>

build_participation_table ==
    /\ rp_done = StepOf("participation") - 1
    /\ LET built == build_participation_table_rows(rp_staging, rp_tables)
       IN  Committed("participation", built.table, built.warnings)
    /\ UNCHANGED <<rpInstance, rp_character_names, rp_runs>>

build_participation_to_character_table ==
    /\ rp_done = StepOf("participation_to_character") - 1
    /\ LET built == build_participation_to_character_table_rows(rp_staging, rp_tables)
       IN  Committed("participation_to_character", built.table, built.warnings)
    /\ UNCHANGED <<rpInstance, rp_character_names, rp_runs>>

\* build_dataset_table of one dataset from a file with other contents, between
\* two builds of the report tables.
load_dataset_again ==
    /\ rp_done = LastStep \/ rp_error # NoError
    /\ \E imdb_dataset \in StagingNames :
          \E table_rows \in StagingContents[imdb_dataset] \ {rp_staging[imdb_dataset]} :
              rp_staging' = [rp_staging EXCEPT ![imdb_dataset] = table_rows]
    /\ rp_done' = 0
    /\ rp_error' = NoError
    /\ rp_log' = <<>>
    /\ UNCHANGED <<rp_bulk_size, rp_tables, rpInstance, rp_character_names, rp_runs>>
    /\ UNCHANGED notRp

\* Database(engine_info) on the same database, has_to_drop_tables left False,
\* with create_imdb_dataset_tables and create_report_tables: the tables keep
\* their rows, the fields of the instance are those of __init__.
open_database_again ==
    /\ rp_done \in {0, LastStep} \/ rp_error # NoError
    /\ rp_runs > 0
    /\ rp_nconst_to_name_id_map.cached \/ DOMAIN rp_lru_cache # {}
           \/ rp_unknown_title_alias_types # PyNone
    /\ rp_nconst_to_name_id_map' = [cached |-> FALSE]
    /\ rp_lru_cache' = <<>>
    /\ rp_unknown_title_alias_types' = PyNone
    /\ rp_cached_at' = 0
    /\ UNCHANGED <<rp_bulk_size, rp_staging, rp_tables, rp_character_names, rp_done,
                   rp_error, rp_log, rp_runs>>
    /\ UNCHANGED notRp

-----------------------------------------------------------------------------
(* Specifications *)

vars == <<bulkVars, tcVars, ldVars, keyVars, rpVars>>

InitBulk == BulkInit /\ TcIdle /\ LdIdle /\ KeyIdle /\ RpIdle
NextBulk == Add \/ Close \/ Exit
SpecBulk == InitBulk /\ [][NextBulk]_vars

InitCoerce == BulkIdle /\ TcInit /\ LdIdle /\ KeyIdle /\ RpIdle
NextCoerce == Coerce
SpecCoerce == InitCoerce /\ [][NextCoerce]_vars

InitLoad == BulkIdle /\ TcIdle /\ LdInit /\ KeyIdle /\ RpIdle
NextLoad == BeginLoad \/ ReadRow \/ EndOfFile \/ create_report_tables
SpecLoad == InitLoad /\ [][NextLoad]_vars

InitKey == BulkIdle /\ TcIdle /\ LdIdle /\ KeyInit /\ RpIdle
NextKey == build_key_table_from_values \/ build_key_table_from_query
SpecKey == InitKey /\ [][NextKey]_vars

InitReport == BulkIdle /\ TcIdle /\ LdIdle /\ KeyIdle /\ RpInit
NextReport ==
    \/ build_title_type_table
    \/ build_genre_table
    \/ build_profession_table
    \/ build_title_alias_type_table
    \/ build_name_table
    \/ build_title_table
    \/ build_title_to_genre_table
    \/ build_title_to_director_table
    \/ build_title_to_writer_table
    \/ build_name_to_known_for_title_table
    \/ build_title_alias_table
    \/ build_title_alias_to_title_alias_type_table
    \/ build_characters_to_character_table
    \/ build_character_table
    \/ build_participation_table
    \/ build_participation_to_character_table
    \/ load_dataset_again
    \/ open_database_again
SpecReport == InitReport /\ [][NextReport]_vars

-----------------------------------------------------------------------------
(* Properties of build_dataset_table *)

\* C1: when coercion of a row fails, the staging table the caller sees after the
\* error is the one it saw before the call: no row ingested by the failed call is
\* visible, the rows flushed in earlier full batches included.
C1_FailedLoadLeavesNoRows ==
    ld_pc = "failed" => ld_staging[ld_dataset] = ld_before

\* A load failed after more rows than bulk_size had been added, so that rows of
\* the file had already been flushed, and none is visible.
C1_Witness ==
    /\ ld_pc = "failed"
    /\ ld_bulk.count > ld_bulk_size
    /\ Len(ld_txn) >= 1
    /\ ld_staging[ld_dataset] = <<>>

\* C5: after a successful load the staging table holds exactly one row per
\* distinct primary-key tuple of the file, the first row read for that key.
TypedRow(imdb_dataset, raw_map) ==
    typed_column_to_value_map(imdb_dataset_table_infos[imdb_dataset], raw_map).result

C5_OneRowPerKey ==
    ld_pc = "done" =>
        LET stored == ld_staging[ld_dataset]
        IN  /\ Len(stored) = Cardinality(DOMAIN ld_first)
            /\ \A pk \in DOMAIN ld_first :
                  Cardinality({i \in 1..Len(stored) :
                                  stored[i] = TypedRow(ld_dataset, ld_first[pk])}) = 1
            /\ \A i, j \in 1..Len(stored) :
                  (\A k \in 1..Len(PrimaryKeyColumns(ld_dataset)) :
                      stored[i][PrimaryKeyColumns(ld_dataset)[k]]
                          = stored[j][PrimaryKeyColumns(ld_dataset)[k]]) => i = j

\* A successful load of a file with a repeated key, and of one with two keys
\* that agree on the first key column only.
C5_Witness ==
    /\ ld_pc = "done"
    /\ ld_dataset = "title_akas"
    /\ ld_row_number = 3
    /\ Len(ld_staging[ld_dataset]) = 2

\* C8: every coercion failure reaches the caller as an error that carries the
\* path of the file and the number of the offending row.
C8_ErrorCarriesPathAndRow ==
    ld_pc = "failed" =>
        /\ ld_error.kind = "PimdbError"
        /\ ld_error.path = gzipped_tsv_path(ld_dataset)
        /\ ld_error.row_number = ld_row_number

\* What holds of the code: a malformed boolean is reported with path and row.
C8_BooleanErrorCarriesPathAndRow ==
    (ld_pc = "failed" /\ ld_error.kind = "PimdbError") =>
        /\ ld_error.path = gzipped_tsv_path(ld_dataset)
        /\ ld_error.row_number = ld_row_number
        /\ ld_error.cause.raw = ld_emitted[Len(ld_emitted)][ld_error.cause.column]

\* C9: the null sentinel never aborts a load; in a non-nullable column the row is
\* stored with the zero value of the type and one warning is logged for the field,
\* in a nullable column null is stored and no warning is logged.
ZeroValue(python_type) ==
    CASE python_type = "bool" -> PyBool(FALSE)
      [] python_type = "int" -> PyInt(0)
      [] python_type = "float" -> PyFloat(0, 0)
      [] python_type = "str" -> PyStr("")

WarningCount(column_name, raw_map) ==
    Cardinality({j \in 1..Len(ld_warnings) :
                    /\ ld_warnings[j].column = column_name
                    /\ ld_warnings[j].raw_value_map = raw_map})

MalformedRaw == {"x"}

C9_NullSentinelIsRecovered ==
    LET columns == imdb_dataset_table_infos[ld_dataset]
    IN  /\ ld_pc = "failed" =>
              \E k \in 1..Len(columns) :
                  ld_emitted[Len(ld_emitted)][columns[k].name] \in MalformedRaw
        /\ ld_pc = "done" =>
              LET stored == ld_staging[ld_dataset]
              IN  /\ Len(stored) = Len(ld_emitted)
                  /\ \A i \in 1..Len(ld_emitted), k \in 1..Len(columns) :
                        LET name == columns[k].name
                        IN  ld_emitted[i][name] = NULL_SENTINEL =>
                               IF columns[k].nullable
                               THEN /\ stored[i][name] = PyNone
                                    /\ WarningCount(name, ld_emitted[i]) = 0
                               ELSE /\ PyEq(stored[i][name],
                                            ZeroValue(columns[k].python_type))
                                    /\ WarningCount(name, ld_emitted[i]) = 1

\* A successful load of a row with the sentinel in a non-nullable and in a
\* nullable column.
C9_Witness ==
    /\ ld_pc = "done"
    /\ ld_dataset = "title_basics"
    /\ \E i \in 1..Len(ld_emitted) :
          /\ ld_emitted[i].isAdult = NULL_SENTINEL
          /\ ld_emitted[i].startYear = NULL_SENTINEL
          /\ ld_staging[ld_dataset][i].isAdult = PyBool(FALSE)
          /\ ld_staging[ld_dataset][i].startYear = PyNone
    /\ Len(ld_warnings) = 1

-----------------------------------------------------------------------------
(* Properties of BulkInsert *)

\* C4: after add() calls followed by a normal close, every added row is in the
\* table exactly once, in the order added, and no row is left in the buffer.
C4_CloseInsertsEveryRowOnce ==
    bulk_insert.state = "closed" =>
        /\ bulk_table = bulk_added
        /\ bulk_insert.data = <<>>

\* A close after a full batch and a part of the next.
C4_Witness ==
    /\ bulk_insert.state = "closed"
    /\ bulk_insert.bulk_size = 2
    /\ Len(bulk_added) = 3
    /\ Len(bulk_table) = 3

-----------------------------------------------------------------------------
(* Properties of typed_column_to_value_map *)

ExpectedInt == ("0" :> 0) @@ ("1" :> 1) @@ ("7" :> 7) @@ ("-3" :> -3)

ExpectedFloat ==
    ("0" :> PyFloat(0, 0)) @@ ("1" :> PyFloat(1, 0)) @@ ("7" :> PyFloat(7, 0))
        @@ ("-3" :> PyFloat(-3, 0)) @@ ("7.5" :> PyFloat(75, 1))
        @@ ("2.0" :> PyFloat(2, 0))

\* The column raised (at i) or, when no column raised, got a value.
RaisedAt(i) == tc_out.kind \notin {"none", "ok"} /\ tc_out.at = i
RaisedBefore(i) == tc_out.kind \notin {"none", "ok"} /\ tc_out.at < i
Returned(i, value) ==
    ~RaisedAt(i) /\ (tc_out.kind = "ok" => tc_out.result[tc_columns[i].name] = value)

\* C10: null for the sentinel in a nullable column, the zero value of the type in
\* a non-nullable one; on a boolean column true for "1", false for "0" and an
\* error naming the column and the raw value otherwise; else the parsed value.
C10_CoercionTable ==
    tc_out.kind # "none" =>
        \A i \in 1..Len(tc_columns) :
            LET column == tc_columns[i]
                raw_value == tc_raw[column.name]
            IN  RaisedBefore(i) \/
                CASE raw_value = NULL_SENTINEL /\ column.nullable ->
                        Returned(i, PyNone)
                  [] raw_value = NULL_SENTINEL /\ ~column.nullable ->
                        /\ ~RaisedAt(i)
                        /\ tc_out.kind = "ok" =>
                              PyEq(tc_out.result[column.name],
                                   ZeroValue(column.python_type))
                  [] raw_value # NULL_SENTINEL /\ column.python_type = "bool" ->
                        IF raw_value = "1" THEN Returned(i, PyBool(TRUE))
                        ELSE IF raw_value = "0" THEN Returned(i, PyBool(FALSE))
                        ELSE /\ RaisedAt(i)
                             /\ tc_out.error.kind = "PimdbError"
                             /\ tc_out.error.column = column.name
                             /\ tc_out.error.raw = raw_value
                  [] raw_value # NULL_SENTINEL /\ column.python_type = "int" ->
                        raw_value \in DOMAIN ExpectedInt =>
                            Returned(i, PyInt(ExpectedInt[raw_value]))
                  [] raw_value # NULL_SENTINEL /\ column.python_type = "float" ->
                        raw_value \in DOMAIN ExpectedFloat =>
                            Returned(i, ExpectedFloat[raw_value])
                  [] raw_value # NULL_SENTINEL /\ column.python_type = "str" ->
                        Returned(i, PyStr(raw_value))

\* A call that returned with a defaulted boolean and a parsed float, and a call
\* that raised on a malformed boolean.
C10_Witness ==
    /\ tc_out.kind = "ok"
    /\ tc_columns[1].python_type = "bool" /\ ~tc_columns[1].nullable
    /\ tc_raw.c1 = NULL_SENTINEL
    /\ tc_columns[2].python_type = "float"
    /\ tc_raw.c2 = "7.5"
    /\ tc_out.result.c2 = PyFloat(75, 1)

-----------------------------------------------------------------------------
(* Key tables: the names and the ids after a build *)

KeyTableNames == {r.name : r \in Range(key_table)}

\* The tokens of one raw query value, tabulated by hand for the values of
\* QueryValues; "undecodable" where the value is not a JSON array.
TokensOf(raw_value, delimiter) ==
    IF delimiter = "None" THEN {raw_value}
    ELSE IF delimiter = ","
    THEN CASE raw_value = "Comedy," -> {"Comedy", ""}
           [] raw_value = "[\"Alice\",\"Bob\"]" -> {"[\"Alice\"", "\"Bob\"]"}
           [] raw_value = "[\"Bob\",\"Carol\"]" -> {"[\"Bob\"", "\"Carol\"]"}
    ELSE CASE raw_value = "[\"Alice\",\"Bob\"]" -> {"Alice", "Bob"}
           [] raw_value = "[\"Bob\",\"Carol\"]" -> {"Bob", "Carol"}
           [] OTHER -> {"undecodable"}

ExpectedNames ==
    IF key_call.op = "values" THEN Range(key_call.values)
    ELSE UNION {TokensOf(key_call.raw_values[i], key_call.delimiter) :
                    i \in 1..Len(key_call.raw_values)}

\* C6: after build_key_table_from_values or build_key_table_from_query has
\* returned, the names of the key table are exactly the tokens of the input,
\* one row each, whatever the table held before: the values themselves, each
\* raw value without a delimiter, each piece with a character delimiter, each
\* array element with "json".  A query whose values all decode returns.
C6_NamesAreTheTokens ==
    /\ key_out.kind = "ok" =>
          /\ KeyTableNames = ExpectedNames
          /\ Len(key_table) = Cardinality(ExpectedNames)
    /\ key_out.kind = "PimdbError" => key_call.delimiter = "json"

C6_Witness ==
    /\ key_builds = 2
    /\ key_out.kind = "ok"
    /\ key_call.op = "query"
    /\ key_call.delimiter = "json"
    /\ key_call.raw_values = <<"[\"Alice\",\"Bob\"]", "[\"Bob\",\"Carol\"]">>
    /\ KeyTableNames = {"Alice", "Bob", "Carol"}

\* The number of names of the table that are not greater than the name.
RankOf(name) == Cardinality({n \in KeyTableNames : n = name \/ StrLess(n, name)})

\* C7: after a key table has been built, of any two rows the one with the
\* smaller name has the smaller id, and the id of a name is its rank among the
\* names: the name-to-id mapping depends on the set of values only, so that a
\* build from the same values, over a previous build too, gives the same
\* mapping.
C7_SmallerNameSmallerId ==
    key_out.kind = "ok" =>
        /\ \A i, j \in 1..Len(key_table) :
              StrLess(key_table[i].name, key_table[j].name)
                  => key_table[i].id < key_table[j].id
        /\ \A i \in 1..Len(key_table) : key_table[i].id = RankOf(key_table[i].name)

C7_Witness ==
    /\ key_builds = 2
    /\ key_out.kind = "ok"
    /\ key_call.op = "values"
    /\ key_call.values = <<"red", "green", "blue">>
    /\ key_table = <<[id |-> 1, name |-> "blue"], [id |-> 2, name |-> "green"],
                     [id |-> 3, name |-> "red"]>>

-----------------------------------------------------------------------------
(* Report tables: references and orderings after a build *)

IdsOf(table_name) == {r.id : r \in Range(rp_tables[table_name])}

\* Every value of the column is the id of a row of the referenced table.
Resolves(table_name, column, referenced) ==
    \A r \in Range(rp_tables[table_name]) : r[column] \in IdsOf(referenced)

EveryForeignKeyResolves ==
    /\ Resolves("title", "title_type_id", "title_type")
    /\ Resolves("title_to_genre", "title_id", "title")
    /\ Resolves("title_to_genre", "genre_id", "genre")
    /\ Resolves("title_to_director", "title_id", "title")
    /\ Resolves("title_to_director", "name_id", "name")
    /\ Resolves("title_to_writer", "title_id", "title")
    /\ Resolves("title_to_writer", "name_id", "name")
    /\ Resolves("name_to_known_for_title", "name_id", "name")
    /\ Resolves("name_to_known_for_title", "title_id", "title")
    /\ Resolves("title_alias", "title_id", "title")
    /\ Resolves("title_alias_to_title_alias_type", "title_alias_id", "title_alias")
    /\ Resolves("title_alias_to_title_alias_type", "title_alias_type_id",
                "title_alias_type")
    /\ Resolves("characters_to_character", "character_id", "character")
    /\ Resolves("participation", "title_id", "title")
    /\ Resolves("participation", "name_id", "name")
    /\ Resolves("participation", "profession_id", "profession")
    /\ Resolves("participation_to_character", "participation_id", "participation")
    /\ Resolves("participation_to_character", "character_id", "character")

\* C2: when the report build has run through in the order of BuildOrder, every
\* foreign-key value of every report table is the id of a row of the table it
\* refers to.
C2_EveryForeignKeyResolves ==
    (rp_done = LastStep /\ rp_error = NoError) => EveryForeignKeyResolves

\* The same on a Database that read its nconst map during this build.
C2_ResolvesWithMapOfThisBuild ==
    (rp_done = LastStep /\ rp_error = NoError /\ rp_cached_at = rp_runs)
        => EveryForeignKeyResolves

\* The tokens that are natural keys of the table, in their order.
RECURSIVE TokensIn(_, _)
TokensIn(tokens, keys) ==
    IF tokens = <<>> THEN <<>>
    ELSE (IF Head(tokens) \in keys THEN <<Head(tokens)>> ELSE <<>>)
             \o TokensIn(Tail(tokens), keys)

IdOfKey(table_name, key_column, key) ==
    (CHOOSE r \in Range(rp_tables[table_name]) : r[key_column] = key).id

\* The (owner id, ordering, target id) triples a relation must hold: for every
\* owner row and its source list, the k-th token that is a key of the target
\* table, with ordering k.
ExpectedTriples(owner_table, key, source, source_column, target_table, target_key) ==
    UNION {LET resolved ==
                   TokensIn(split(s[source_column], ","),
                            {r[target_key] : r \in Range(rp_tables[target_table])})
           IN  {<<o.id, k, IdOfKey(target_table, target_key, resolved[k])>> :
                    k \in 1..Len(resolved)} :
           <<o, s>> \in {p \in Range(rp_tables[owner_table])
                                 \X Range(rp_staging[source]) :
                             /\ p[1][key] = p[2][key]
                             /\ p[2][source_column] # SqlNull}}

CrewTriples(table_name) ==
    {<<r.title_id, r.ordering, r.name_id>> : r \in Range(rp_tables[table_name])}

DirectorsAreDense ==
    /\ CrewTriples("title_to_director")
           = ExpectedTriples("title", "tconst", "title_crew", "directors",
                             "name", "nconst")
    /\ Len(rp_tables["title_to_director"])
           = Cardinality(CrewTriples("title_to_director"))

WritersAreDense ==
    /\ CrewTriples("title_to_writer")
           = ExpectedTriples("title", "tconst", "title_crew", "writers",
                             "name", "nconst")
    /\ Len(rp_tables["title_to_writer"])
           = Cardinality(CrewTriples("title_to_writer"))

KnownForTitleTriples ==
    {<<r.name_id, r.ordering, r.title_id>> :
        r \in Range(rp_tables["name_to_known_for_title"])}

KnownForTitlesAreDense ==
    /\ KnownForTitleTriples
           = ExpectedTriples("name", "nconst", "name_basics", "knownForTitles",
                             "title", "tconst")
    /\ Len(rp_tables["name_to_known_for_title"]) = Cardinality(KnownForTitleTriples)

\* C3: after the build, for every owner row the relation rows of
\* title_to_director, title_to_writer and name_to_known_for_title are the
\* tokens of its source list that resolve to an id, in source order, with the
\* orderings 1..k and no gap.
C3_OrderingIsDense ==
    (rp_done = LastStep /\ rp_error = NoError)
        => DirectorsAreDense /\ WritersAreDense /\ KnownForTitlesAreDense

\* The same on a Database that read its nconst map during this build.
C3_DenseWithMapOfThisBuild ==
    (rp_done = LastStep /\ rp_error = NoError /\ rp_cached_at = rp_runs)
        => DirectorsAreDense /\ WritersAreDense /\ KnownForTitlesAreDense

\* name_to_known_for_title reads its map on every build.
C3_KnownForTitlesAreDense ==
    (rp_done >= StepOf("name_to_known_for_title") /\ rp_error = NoError)
        => KnownForTitlesAreDense

-----------------------------------------------------------------------------
(* Staging load of title_principals: characters that are no JSON *)

\* A row the reader handed on whose characters value does not parse as JSON.
HasInvalidCharacters ==
    \E i \in 1..Len(ld_emitted) :
        /\ ld_emitted[i].characters # NULL_SENTINEL
        /\ json_loads(ld_emitted[i].characters).kind = "invalid"

\* C11: a load of title_principals that read a row whose characters value is
\* not valid JSON has failed with a PimdbError that carries the path of the file
\* and the row number, and has left the staging table empty.
C11_InvalidCharactersFailTheLoad ==
    (ld_dataset = "title_principals" /\ ld_pc \in {"done", "failed"}
         /\ HasInvalidCharacters)
        => /\ ld_pc = "failed"
           /\ ld_error.kind = "PimdbError"
           /\ "path" \in DOMAIN ld_error
           /\ "row_number" \in DOMAIN ld_error
           /\ ld_staging["title_principals"] = <<>>

\* What the load does with such a row: it stores the text as it is.
C11_InvalidCharactersAreStored ==
    (ld_dataset = "title_principals" /\ ld_pc = "done")
        => \A i \in 1..Len(ld_emitted) :
              \E r \in Range(ld_staging["title_principals"]) :
                  /\ r.tconst = PyStr(ld_emitted[i].tconst)
                  /\ r.characters = PyStr(ld_emitted[i].characters)

-----------------------------------------------------------------------------
(* Report tables: the characters pipeline *)

PipelineDone == rp_done = LastStep /\ rp_error = NoError

\* The characters values of the title_principals rows a participation came from.
SourceCharacters(participation_id) ==
    UNION {{tp.characters : tp \in Range(principals_of(p, rp_staging, rp_tables))} :
              p \in {q \in Range(rp_tables["participation"]) : q.id = participation_id}}

SentinelIsTheEmptyName ==
    {r.name : r \in {c \in Range(rp_tables["character"]) : c.id = 1}} = {""}

\* C12: after the characters pipeline the character with id 1 has the empty
\* name, and a participation_to_character row references character 1 only for
\* a participation whose title_principals.characters value was null.
C12_SentinelOnlyForNullCharacters ==
    PipelineDone =>
        /\ SentinelIsTheEmptyName
        /\ \A r \in Range(rp_tables["participation_to_character"]) :
              r.character_id = 1 => SourceCharacters(r.participation_id) = {SqlNull}

\* What the pipeline does: character 1 is the empty name; a participation with
\* null characters has no participation_to_character row at all, and a row
\* references character 1 exactly for an empty name in the decoded array.
C12_SentinelOnlyForEmptyName ==
    PipelineDone =>
        /\ SentinelIsTheEmptyName
        /\ \A r \in Range(rp_tables["participation_to_character"]) :
              /\ SqlNull \notin SourceCharacters(r.participation_id)
              /\ \A characters \in SourceCharacters(r.participation_id) :
                    (r.character_id = 1) <=>
                        (json_loads(characters).items[r.ordering] = "")

\* The names of all decoded characters arrays, in the order of the rows.
DecodedNames ==
    concat([i \in 1..Len(rp_staging["title_principals"]) |->
        LET characters == rp_staging["title_principals"][i].characters
        IN  IF characters = SqlNull THEN <<>> ELSE json_loads(characters).items])

FirstEncounter(character_name) ==
    CHOOSE i \in 1..Len(DecodedNames) :
        /\ DecodedNames[i] = character_name
        /\ \A j \in 1..(i - 1) : DecodedNames[j] # character_name

CharacterIdOf(character_name) ==
    (CHOOSE r \in Range(rp_tables["character"]) : r.name = character_name).id

\* character: one row per name, the empty name first, the others numbered from
\* 2 in the order in which the arrays mention them first.
CharacterRowsAreTheNames ==
    LET character == rp_tables["character"]
        names == Range(DecodedNames) \cup {""}
    IN  /\ Len(character) = Cardinality(names)
        /\ {r.name : r \in Range(character)} = names
        /\ {r.id : r \in Range(character)} = 1..Cardinality(names)
        /\ CharacterIdOf("") = 1
        /\ \A a, b \in names \ {""} :
              FirstEncounter(a) < FirstEncounter(b) => CharacterIdOf(a) < CharacterIdOf(b)

\* participation_to_character: for a participation whose characters decode to
\* c1..cn, the n rows (participation, k, id of ck) and no other.
ParticipationRowsAreTheArrays ==
    LET rows == rp_tables["participation_to_character"]
    IN  \A p \in Range(rp_tables["participation"]) :
            \A characters \in SourceCharacters(p.id) \ {SqlNull} :
                LET names == json_loads(characters).items
                    own == {i \in 1..Len(rows) : rows[i].participation_id = p.id}
                IN  /\ Cardinality(own) = Len(names)
                    /\ {[ordering |-> rows[i].ordering,
                         character_id |-> rows[i].character_id] : i \in own}
                           = {[ordering |-> k, character_id |-> CharacterIdOf(names[k])] :
                                 k \in 1..Len(names)}

\* C13: after the characters pipeline character holds one row per distinct
\* decoded character name besides the sentinel, with the ids 2, 3, ... in the
\* order of first encounter, and every participation whose characters decode
\* to c1..cn has exactly the rows (participation, k, id of ck), k = 1..n.
C13_CharactersAreNormalized ==
    PipelineDone => (CharacterRowsAreTheNames /\ ParticipationRowsAreTheArrays)

\* Two participations that share a characters literal, naming a character that
\* another literal names too.
C13_Witness ==
    /\ PipelineDone
    /\ \E p, q \in Range(rp_tables["participation"]) :
          /\ p.id # q.id
          /\ SourceCharacters(p.id) = SourceCharacters(q.id)
          /\ SourceCharacters(p.id) = {"[\"Alice\",\"Bob\"]"}
    /\ Len(rp_tables["participation_to_character"]) = 4
    /\ Len(rp_tables["character"]) = 3

-----------------------------------------------------------------------------
(* Report tables: the row count of participation *)

ParticipationBuilt == rp_done = StepOf("participation")

\* Every row of title_principals names a name, a title and a profession that
\* have a row.
EveryPrincipalResolves ==
    \A tp \in Range(rp_staging["title_principals"]) :
        /\ \E r \in Range(rp_tables["name"]) : r.nconst = tp.nconst
        /\ \E r \in Range(rp_tables["title"]) : r.tconst = tp.tconst
        /\ \E r \in Range(rp_tables["profession"]) : r.name = tp.category

CountWarnings ==
    {i \in 1..Len(rp_log) :
        rp_log[i].message
            = "target table \"%s\" has %d rows but should have %d same as source table \"%s\""}

\* C14: after build_participation_table, participation has as many rows as
\* title_principals when every title_principals row resolves to a name, a title
\* and a profession; the count warning is logged exactly when the two counts
\* differ, and the build has not failed.
C14_ParticipationCount ==
    ParticipationBuilt =>
        LET source_count == Len(rp_staging["title_principals"])
            target_count == Len(rp_tables["participation"])
        IN  /\ EveryPrincipalResolves => target_count = source_count
            /\ (CountWarnings # {}) <=> (target_count # source_count)
            /\ Cardinality(CountWarnings) <= 1
            /\ rp_error = NoError

C14_Witness ==
    /\ ParticipationBuilt
    /\ EveryPrincipalResolves
    /\ Len(rp_tables["participation"]) = 3
    /\ rp_log = <<>>

\* The other case: a row that does not resolve, fewer participations, a warning.
C14_WitnessOfWarning ==
    /\ ParticipationBuilt
    /\ ~EveryPrincipalResolves
    /\ Len(rp_tables["participation"]) < Len(rp_staging["title_principals"])
    /\ Cardinality(CountWarnings) = 1
    /\ rp_error = NoError

-----------------------------------------------------------------------------
(* Report tables: the ratings of title *)

TitleBuilt == rp_done >= StepOf("title")

RatingsOf(tconst) == {r \in Range(rp_staging["title_ratings"]) : r.tconst = tconst}

\* C15: after build_title_table a title whose tconst has no row in
\* title_ratings has average_rating 0 and rating_count 0, and a title whose
\* tconst has a rating row carries its averageRating and numVotes.
C15_RatingsOrZero ==
    TitleBuilt =>
        \A title \in Range(rp_tables["title"]) :
            IF RatingsOf(title.tconst) = {}
            THEN /\ title.average_rating.m = 0
                 /\ title.rating_count = 0
            ELSE \E r \in RatingsOf(title.tconst) :
                    /\ title.average_rating = r.averageRating
                    /\ title.rating_count = r.numVotes

\* A title table with a rated and an unrated title.
C15_Witness ==
    /\ TitleBuilt
    /\ \E rated, unrated \in Range(rp_tables["title"]) :
          /\ RatingsOf(rated.tconst) # {}
          /\ rated.rating_count = 10
          /\ RatingsOf(unrated.tconst) = {}
          /\ unrated.rating_count = 0

-----------------------------------------------------------------------------
(* Report tables: the types of a title alias *)

EnumeratedOrder ==
    <<"alternative", "dvd", "festival", "tv", "video", "working", "original",
      "imdbDisplay">>

\* What is left of raw when tag k is looked for: raw without the tags before k
\* that were found.
RECURSIVE ResidualBefore(_, _)
ResidualBefore(raw, k) ==
    IF k = 1 THEN raw
    ELSE LET residual == ResidualBefore(raw, k - 1)
         IN  IF contains(residual, EnumeratedOrder[k - 1])
             THEN replace(residual, EnumeratedOrder[k - 1], "")
             ELSE residual

Matched(raw) ==
    {k \in 1..Len(EnumeratedOrder) : contains(ResidualBefore(raw, k), EnumeratedOrder[k])}

\* The raw types of the staging contents, each with its matched tags.
RawTypes ==
    UNION {{akas.types : akas \in Range(contents)} : contents \in TitleAkasContents}
        \ {SqlNull}

MatchedTags == [raw \in RawTypes |-> {EnumeratedOrder[k] : k \in Matched(raw)}]

PlaceOf(tag) == CHOOSE k \in 1..Len(EnumeratedOrder) : EnumeratedOrder[k] = tag

\* The result lists the matched tags, each once, in the enumerated order.
IsTheMatchedTags(result, raw) ==
    /\ Range(result) = MatchedTags[raw]
    /\ \A i, j \in 1..Len(result) : i < j => PlaceOf(result[i]) < PlaceOf(result[j])

AliasTypesBuilt == rp_done >= StepOf("title_alias_to_title_alias_type")

\* The raw types of the title_akas row a title_alias row came from.
RawTypesOf(title_alias) ==
    {akas.types : akas \in
        {a \in Range(rp_staging["title_akas"]) :
            /\ a.ordering = title_alias.ordering
            /\ \E t \in Range(rp_tables["title"]) :
                  t.id = title_alias.title_id /\ t.tconst = a.titleId}}

\* C16: mappable_title_alias_types(raw) returns the matched tags in the order
\* alternative, dvd, festival, tv, video, working, original, imdbDisplay, each at
\* most once, a tag being matched exactly when it occurs in what is left of raw
\* after the removal of the tags matched before it; and
\* title_alias_to_title_alias_type stores them with the orderings 1..n in that
\* order.
C16_MatchedTagsInEnumeratedOrder ==
    /\ \A raw \in DOMAIN rp_lru_cache : IsTheMatchedTags(rp_lru_cache[raw], raw)
    /\ AliasTypesBuilt =>
          LET rows == rp_tables["title_alias_to_title_alias_type"]
          IN  \A title_alias \in Range(rp_tables["title_alias"]) :
                  \A raw \in RawTypesOf(title_alias) \ {SqlNull} :
                      LET result == TokensIn(EnumeratedOrder, MatchedTags[raw])
                          own == {i \in 1..Len(rows) :
                                     rows[i].title_alias_id = title_alias.id}
                      IN  /\ Cardinality(own) = Len(result)
                          /\ {<<rows[i].ordering, rows[i].title_alias_type_id>> : i \in own}
                                = {<<k, IdOfKey("title_alias_type", "name", result[k])>> :
                                      k \in 1..Len(result)}

\* Tags given in another order than the enumerated one, and a tag that only
\* appears once an earlier tag is removed.
C16_Witness ==
    /\ AliasTypesBuilt
    /\ {"video tv", "vidvddeo"} \subseteq DOMAIN rp_lru_cache
    /\ rp_lru_cache["video tv"] = <<"tv", "video">>
    /\ rp_lru_cache["vidvddeo"] = <<"dvd", "video">>
    /\ Len(rp_tables["title_alias_to_title_alias_type"]) >= 4

\* The orderings and type names of the rows of one alias.
TypesOfAlias(title_alias) ==
    {<<r.ordering, t.name>> :
        <<r, t>> \in {<<r, t>> \in Range(rp_tables["title_alias_to_title_alias_type"])
                                      \X Range(rp_tables["title_alias_type"]) :
                         /\ r.title_alias_id = title_alias.id
                         /\ r.title_alias_type_id = t.id}}

AliasesOf(raw) == {a \in Range(rp_tables["title_alias"]) : RawTypesOf(a) = {raw}}

\* The warnings of the last step about a residual that holds the text.
UnknownWarnings(text) ==
    {i \in 1..Len(rp_log) :
        /\ Len(rp_log[i].args) = 2
        /\ rp_log[i].args[1] = "title_akas"
        /\ contains(rp_log[i].args[2], text)}

AliasTypesJustBuilt ==
    rp_done = StepOf("title_alias_to_title_alias_type") /\ rp_error = NoError

\* C17: for a title_akas row with the types "imdbDisplay original garbage"
\* title_alias_to_title_alias_type holds exactly two rows for the alias,
\* ordering 1 for imdbDisplay and ordering 2 for original; the unknown types
\* hold the residual with garbage and a single warning is recorded.
C17_DisplayThenOriginal ==
    AliasTypesJustBuilt =>
        \A title_alias \in AliasesOf("imdbDisplay original garbage") :
            /\ TypesOfAlias(title_alias) = {<<1, "imdbDisplay">>, <<2, "original">>}
            /\ \E residual \in rp_unknown_title_alias_types.v :
                  contains(residual, "garbage")
            /\ Cardinality(UnknownWarnings("garbage")) = 1

\* What the first build on a Database stores for that row: the enumerated
\* order, original before imdbDisplay, with the residual and one warning.
C17_OriginalThenDisplay ==
    (AliasTypesJustBuilt /\ rp_runs = 1) =>
        \A title_alias \in AliasesOf("imdbDisplay original garbage") :
            /\ TypesOfAlias(title_alias) = {<<1, "original">>, <<2, "imdbDisplay">>}
            /\ "  garbage" \in rp_unknown_title_alias_types.v
            /\ Cardinality(UnknownWarnings("garbage")) = 1

-----------------------------------------------------------------------------
(* Report tables: the unknown types of a run *)

\* What is left of a raw value after the removal of all its matched tags.
Residual == [raw \in RawTypes |-> ResidualBefore(raw, Len(EnumeratedOrder) + 1)]

\* The non-empty residuals of the raw values the last run went through.
ResidualsOfThisRun ==
    {Residual[raw] :
        raw \in UNION {RawTypesOf(a) : a \in Range(rp_tables["title_alias"])}
                    \ {SqlNull}} \ {""}

WarningsAbout(residual) ==
    {i \in 1..Len(rp_log) :
        Len(rp_log[i].args) = 2 /\ rp_log[i].args[2] = residual}

UnknownTypesAreTheResiduals ==
    /\ ResidualsOfThisRun \subseteq rp_unknown_title_alias_types.v
    /\ \A residual \in ResidualsOfThisRun : Cardinality(WarningsAbout(residual)) = 1

\* C18: after every run of build_title_alias_to_title_alias_type_table, a
\* second run on the same Database over the same staging data included, the
\* unknown types hold the non-empty residual of every raw types value of the
\* run, and each distinct residual was warned about once.
C18_UnknownTypesOfEveryRun ==
    AliasTypesJustBuilt => UnknownTypesAreTheResiduals

\* The same for the first build of the report tables.
C18_UnknownTypesOfFirstRun ==
    (AliasTypesJustBuilt /\ rp_runs = 1) => UnknownTypesAreTheResiduals

-----------------------------------------------------------------------------
(* Key tables: unique and non-empty names *)

KeyTableBuilt == key_builds > 0 /\ key_out.kind = "ok"

NamesAreUnique ==
    \A i, j \in 1..Len(key_table) : i # j => key_table[i].name # key_table[j].name

\* C19: after a key table is built from any staging contents, every name is
\* unique within the table and is not the empty string, also when a
\* comma-separated value has an empty piece such as after a trailing comma.
C19_NamesUniqueAndNotEmpty ==
    KeyTableBuilt => (NamesAreUnique /\ "" \notin KeyTableNames)

\* The names are unique; the empty name is in the table exactly when it is one
\* of the tokens of the input.
C19_EmptyNameWhenEmptyToken ==
    KeyTableBuilt => (NamesAreUnique /\ ("" \in KeyTableNames <=> "" \in ExpectedNames))

-----------------------------------------------------------------------------
(* BulkInsert: the buffer and the count between the calls of add *)

BufferAndCount ==
    bulk_insert.state = "open" =>
        /\ Len(bulk_insert.data) < bulk_insert.bulk_size
        /\ bulk_insert.count = Len(bulk_added)
        /\ Len(bulk_table) + Len(bulk_insert.data) = bulk_insert.count

\* A call of add that wrote to the table wrote the last bulk_size rows added.
AddFlushesBulkSize ==
    (bulk_insert.state = "open" /\ bulk_insert'.state = "open"
         /\ bulk_table' # bulk_table)
        => LET n == Len(bulk_added')
           IN  bulk_table' = bulk_table
                   \o SubSeq(bulk_added', n - bulk_insert.bulk_size + 1, n)

\* C20: whenever a call of add has returned, the buffer holds fewer than
\* bulk_size rows, the rows written and the rows buffered are together as many
\* as the calls of add (count), and a flush made by add has written exactly
\* bulk_size rows.
C20_BufferBelowBulkSize == [] BufferAndCount /\ [][AddFlushesBulkSize]_vars

\* Three rows added with bulk_size 2: two written, one buffered.
C20_Witness ==
    /\ bulk_insert.state = "open"
    /\ bulk_insert.bulk_size = 2
    /\ bulk_insert.count = 3
    /\ Len(bulk_table) = 2
    /\ Len(bulk_insert.data) = 1

-----------------------------------------------------------------------------
(* Report tables: the check for an empty target *)

\* The table the last committed step of the build has filled.
StepCommitted == rp_done >= 1 /\ rp_error = NoError

LastTarget == BuildOrder[rp_done]

\* The warnings of the last step that speak of the rows of a target: the one of
\* check_table_has_data and the one of check_table_count.
EmptinessWarnings ==
    {i \in 1..Len(rp_log) :
        rp_log[i].message \in
            {"target table \"%s\" should contain rows but is empty",
             "target table \"%s\" has %d rows but should have %d same as source table \"%s\""}}

\* C21: every build of a report table checks after filling its target whether
\* the target is empty, logs a warning when it is, and does not fail.
C21_EmptyTargetIsWarned ==
    StepCommitted =>
        (rp_tables[LastTarget] = <<>> => EmptinessWarnings # {})

\* The builds that do call check_table_has_data or check_table_count.
CheckedTargets ==
    {"title_type", "genre", "profession", "title_alias_type", "title", "title_alias",
     "participation", "participation_to_character"}

\* A target left empty without a warning is one of the unchecked builds.
C21_OnlyCheckedBuildsWarn ==
    StepCommitted =>
        /\ (LastTarget \in CheckedTargets /\ rp_tables[LastTarget] = <<>>)
               => EmptinessWarnings # {}
        /\ LastTarget \notin CheckedTargets => EmptinessWarnings = {}

\* A key table built from no values: the warning is logged, the build returns.
C21_EmptyKeyTableIsWarned ==
    KeyTableBuilt =>
        (key_table = <<>> <=>
            key_out.warnings
                = <<[message |-> "target table \"%s\" should contain rows but is empty",
                     args |-> <<>>]>>)

-----------------------------------------------------------------------------
(* Report tables: references between two transactions of the build *)

\* C22: after every committed transaction of the report build, on a first
\* build and on a rerun over a built database, no row of a report table
\* references an id that its referenced table does not hold.
C22_ConsistentAtEveryBoundary ==
    StepCommitted => EveryForeignKeyResolves

\* On the first build the references resolve at every boundary but the one
\* between the transaction of characters_to_character and that of character.
C22_FirstBuildButCharacters ==
    (StepCommitted /\ rp_runs = 1 /\ rp_done # StepOf("characters_to_character"))
        => EveryForeignKeyResolves

\* At that boundary characters_to_character references the characters of the
\* map, which character does not hold yet.
C22_CharactersAheadOfCharacter ==
    (StepCommitted /\ rp_runs = 1 /\ rp_done = StepOf("characters_to_character")
        /\ rp_tables["characters_to_character"] # <<>>)
        => ~Resolves("characters_to_character", "character_id", "character")

-----------------------------------------------------------------------------
(* Report tables: the name ids of the crew relations *)

\* The nconst tokens title_crew lists in the column for the title with the id.
CrewTokens(title_id, column) ==
    UNION {Range(split(c[column], ",")) :
              c \in {c \in Range(rp_staging["title_crew"]) :
                        /\ c[column] # SqlNull
                        /\ \E t \in Range(rp_tables["title"]) :
                              t.id = title_id /\ t.tconst = c.tconst}}

\* Every row of the relation carries the id that the name table now gives to
\* one of the nconst tokens of its title.
NameIdsAreCurrent(table_name, column) ==
    \A r \in Range(rp_tables[table_name]) :
        \E n \in Range(rp_tables["name"]) :
            n.id = r.name_id /\ n.nconst \in CrewTokens(r.title_id, column)

CrewBuilt(table_name) == rp_done >= StepOf(table_name) /\ rp_error = NoError

\* C23: when build_title_to_director or build_title_to_writer has run after
\* the latest build_name_table on a Database, every row of title_to_director
\* and title_to_writer has the current id of the name row of its title_crew
\* token, also when name was rebuilt with other contents after an earlier crew
\* build on that Database.
C23_CrewNameIdsAreCurrent ==
    /\ CrewBuilt("title_to_director") => NameIdsAreCurrent("title_to_director", "directors")
    /\ CrewBuilt("title_to_writer") => NameIdsAreCurrent("title_to_writer", "writers")

\* The same on a Database that read its nconst map after the latest build of
\* name.
C23_CurrentWithMapOfThisBuild ==
    rp_cached_at = rp_runs =>
        /\ CrewBuilt("title_to_director")
               => NameIdsAreCurrent("title_to_director", "directors")
        /\ CrewBuilt("title_to_writer")
               => NameIdsAreCurrent("title_to_writer", "writers")

-----------------------------------------------------------------------------
(* Staging tables: what create_report_tables leaves of them *)

ReportTablesCreated == ld_pc' = "report_tables_created"

\* C24: create_report_tables leaves the rows of every staging table as they
\* are, whatever the value of has_to_drop_tables.
C24_StagingRowsAreKept == [][ReportTablesCreated => ld_staging' = ld_staging]_vars

\* Without has_to_drop_tables the rows are kept; with it every staging table
\* is empty afterwards.
C24_KeptUnlessDropped ==
    /\ staging_after_create_report_tables(ld_staging, FALSE) = ld_staging
    /\ \A d \in DOMAIN ld_staging :
          staging_after_create_report_tables(ld_staging, TRUE)[d] = <<>>

-----------------------------------------------------------------------------
(* Report tables: raw types made of enumerated tags and separators only *)

Separators == {" ", ","}

IsOnlySeparators(text) == \A i \in 1..Len(text) : CharAt(text, i) \in Separators

\* The residuals the last step warned about.
WarnedResiduals ==
    {rp_log[i].args[2] : i \in {j \in 1..Len(rp_log) :
                                   Len(rp_log[j].args) = 2
                                       /\ rp_log[j].args[1] = "title_akas"}}

\* C25: a raw types value that consists of enumerated tags joined by a
\* separator, such as "alternative working", adds nothing to the unknown types
\* and triggers no warning; only text other than tags and separators does.
C25_SeparatorsAreNotUnknown ==
    AliasTypesJustBuilt =>
        \A residual \in rp_unknown_title_alias_types.v \cup WarnedResiduals :
            ~IsOnlySeparators(residual)

\* On the first build the separator left of "alternative working" is recorded
\* as an unknown type and warned about.
C25_SeparatorIsRecorded ==
    (AliasTypesJustBuilt /\ rp_runs = 1 /\ AliasesOf("alternative working") # {})
        => /\ Residual["alternative working"] = " "
           /\ " " \in rp_unknown_title_alias_types.v
           /\ " " \in WarnedResiduals

====
